---- MODULE Spec2Model ----
(***************************************************************************)
(* A model of the JTBD research client: the project store                  *)
(* (src/src/store/projectStore.ts), the auth store                         *)
(* (src/src/store/authStore.ts), the views that read them, and the backend *)
(* tables they talk to (src/supabase/migrations).                          *)
(*                                                                         *)
(* Every `await` of the code is a step boundary: a request is issued, the  *)
(* backend executes it at some later instant, and the client resumes when  *)
(* the response (or a client-side timer) arrives.                          *)
(***************************************************************************)
EXTENDS Integers, Sequences, FiniteSets, TLC

(***************************************************************************)
(* Bounds of the model.                                                    *)
(***************************************************************************)
MaxCalls == 1          \* create calls made in one behaviour
MaxOverlap == 2        \* fetchProjects/refreshProfiles calls that may overlap
MaxProjects == 2       \* projects at the backend
MaxFaults == 1         \* faults injected while forces are edited
MaxVisits == 2         \* visits to the grouping page
MaxSubmits == 2        \* submissions of one interview form
MaxId == 12            \* row identifiers the backend hands out under direct requests

(***************************************************************************)
(* Program constants.                                                      *)
(***************************************************************************)
retries == 3           \* createEntityWithRetry's default `retries`
BackoffBase == 1000    \* 1000 * Math.pow(2, attempt - 1)
BackoffCap == 5000     \* Math.min(..., 5000)
ProjectsLimit == 50    \* fetchProjects: .limit(50)
AgeLow == 0            \* CHECK (participant_age > 0 ...
AgeHigh == 120         \*        ... AND participant_age < 120)

ForceTypes == {"push", "pull", "habit", "anxiety"}
GroupTypes == {"push", "pull"}

VARIABLES
  store,      \* the zustand project store: collections, loading, isFetching
  db,         \* the backend tables, each in insertion order (oldest first)
  nextId,     \* the backend's generator of row identifiers
  session,    \* the auth service's signed-in principal (0: none)
  cr,         \* the create calls: position in createEntityWithRetry and wrapper
  nCalls,     \* the number of create calls made so far
  orphans,    \* insert requests the client gave up on that may still land
  faults,     \* the faults the environment may still inject (-1: any number)
  fp,         \* the fetchProjects and refreshProfiles calls
  fx,         \* the project-scoped fetch calls (fetchStories, fetchForces, ...)
  dl,         \* the deleteForce calls
  up,         \* the update calls (updateStory, ..., assignForceToGroup)
  auth,       \* the zustand auth store: user, profile, loading
  principal,  \* the principal who signs in: email and metadata
  flow,       \* the auth flows: initialize, the auth-state handlers, signOut
  page        \* the pages' own state: story index, validation errors, route

\* The variables the create operations never touch.
nonCreate == <<fp, fx, dl, up, auth, principal, flow, page>>

vars == <<store, db, nextId, session, cr, nCalls, orphans, faults, nonCreate>>

(***************************************************************************)
(* Records.                                                                *)
(***************************************************************************)
NoRow == [id |-> 0]

\* A create call.  `arg` is the record the caller passed and `data` the one
\* the operation sends.  `inserts` counts the insert requests it has issued
\* and `terminal` tells that an attempt has failed other than by a timeout;
\* both only record what happened.
IdleCall ==
  [op |-> "none", table |-> "none", arg |-> NoRow, data |-> NoRow,
   attempt |-> 0,
   pc |-> "idle", req |-> "none", row |-> NoRow,
   inserts |-> 0, terminal |-> FALSE, wait |-> 0]

\* The store field a create operation adds its record to.
Collection(op) ==
  CASE op = "createProject"     -> "projects"
    [] op = "createInterview"   -> "interviews"
    [] op = "createStory"       -> "stories"
    [] op = "createForce"       -> "forces"
    [] op = "createForceGroup"  -> "forceGroups"
    [] op = "createMatrixEntry" -> "matrixEntries"

\* Column defaults the backend fills in on insert.
Defaults(table) ==
  IF table = "forces" THEN [group_id |-> 0] ELSE [id |-> 0]

\* INSERT ... RETURNING: the stored row with its generated identifier.
StoredRow(table, data, id) == [id |-> id] @@ data @@ Defaults(table)

RECURSIVE Pow2(_)
Pow2(n) == IF n <= 0 THEN 1 ELSE 2 * Pow2(n - 1)

Min(a, b) == IF a <= b THEN a ELSE b

\* const waitTime = Math.min(1000 * Math.pow(2, attempt - 1), 5000)
WaitTime(attempt) == Min(BackoffBase * Pow2(attempt - 1), BackoffCap)

(***************************************************************************)
(* The access policies of the backend's tables.                            *)
(***************************************************************************)
Tables ==
  {"profiles", "projects", "interviews", "stories", "forces", "force_groups",
   "story_group_matrix"}

Commands == {"select", "insert", "update", "delete"}

\* The "Universal Creation Fix" part of the migration: one policy FOR ALL
\* TO authenticated per table.
UniversalAll ==
  {[tbl |-> t, cmd |-> "all", roles |-> {"authenticated"}] : t \in Tables}

\* The "Fix RLS Policies for Universal Access" part: select, insert and
\* update policies for profiles, these and a delete policy for projects,
\* one policy FOR ALL for each of the other tables.
UniversalPerCommand ==
  {[tbl |-> "profiles", cmd |-> c, roles |-> {"anon", "authenticated"}] :
     c \in {"select", "insert", "update"}}
  \cup {[tbl |-> "projects", cmd |-> c, roles |-> {"anon", "authenticated"}] :
          c \in Commands}
  \cup {[tbl |-> t, cmd |-> "all", roles |-> {"anon", "authenticated"}] :
          t \in Tables \ {"profiles", "projects"}}

\* DROP POLICY for every policy on the seven tables.
DropAll(policies) == {p \in policies : p.tbl \notin Tables}

\* The policies in force once the migration file has run, whatever policies
\* `before` were there: each part first drops every policy on the seven
\* tables, then creates its own.
PoliciesAfter(before) ==
  DropAll(DropAll(before) \cup UniversalAll) \cup UniversalPerCommand

Policies == PoliciesAfter({})

\* Row level security is enabled on every table: a command goes through if
\* some policy for it applies to the caller's role and its expression,
\* auth.role() = 'authenticated', holds.  No policy reads the row.
Permitted(who, table, cmd, row) ==
  \E p \in Policies :
    /\ p.tbl = table
    /\ p.cmd \in {cmd, "all"}
    /\ who.role \in p.roles
    /\ who.role = "authenticated"

\* The callers: nobody signed in, and two signed-in principals.
Callers ==
  {[id |-> 0, role |-> "anon"], [id |-> 1, role |-> "authenticated"],
   [id |-> 2, role |-> "authenticated"]}

\* The role a request of the client is made in: the session's, or anon when
\* no session is left.
Caller ==
  IF session = 0 THEN [id |-> 0, role |-> "anon"]
                 ELSE [id |-> session, role |-> "authenticated"]

(***************************************************************************)
(* The store's create operations: the part before createEntityWithRetry.   *)
(* A call takes a free slot; the free-text field of its payload (name,     *)
(* title, description) is the number of the call, so that the rows of one  *)
(* call can be told from the rows of another.                              *)
(***************************************************************************)
Free(c) == cr[c].pc \in {"idle", "returned", "thrown"}

\* A call as it starts: the record it was passed, the record it sends, and
\* where it begins.
Request(op, table, arg, data, pc) ==
  [IdleCall EXCEPT !.op = op, !.table = table, !.arg = arg, !.data = data,
                   !.attempt = IF pc = "auth" THEN 1 ELSE 0, !.pc = pc]

\* The call is made, provided fewer than `bound` calls have been made.
StartsWithin(c, request, bound) ==
  /\ Free(c)
  /\ nCalls < bound
  /\ nCalls' = nCalls + 1
  /\ cr' = [cr EXCEPT ![c] = request]
  /\ UNCHANGED <<store, db, nextId, session, orphans, faults,
                 fp, fx, dl, up, auth, principal, flow>>

BeginWith(c, op, table, arg, data, pc) ==
  /\ StartsWithin(c, Request(op, table, arg, data, pc), MaxCalls)
  /\ UNCHANGED page

\* A call whose record is sent as it was passed.
Begin(c, op, table, data, pc) == BeginWith(c, op, table, data, data, pc)

\* createProject first awaits supabase.auth.getUser() itself.
createProject(c) ==
  Begin(c, "createProject", "projects",
        [name |-> nCalls + 1, owner_id |-> 0, status |-> "active"], "pre_auth")

\* data.participant_age || null: an age that is missing or 0 is sent as
\* null.
AgeOrNull(age) == IF age # <<>> /\ age[1] # 0 THEN age ELSE <<>>

InterviewRequest(pid, age) ==
  Request("createInterview", "interviews",
          [project_id |-> pid, participant_name |-> nCalls + 1,
           participant_age |-> age],
          [project_id |-> pid, participant_name |-> nCalls + 1,
           participant_age |-> AgeOrNull(age)], "auth")

createInterview(c, pid, age) ==
  /\ StartsWithin(c, InterviewRequest(pid, age), MaxCalls)
  /\ UNCHANGED page

createStory(c, iid) ==
  Begin(c, "createStory", "stories",
        [interview_id |-> iid, title |-> nCalls + 1], "auth")

createForce(c, storyId, type) ==
  Begin(c, "createForce", "forces",
        [story_id |-> storyId, type |-> type, description |-> nCalls + 1], "auth")

ForceGroupRequest(pid, type) ==
  LET data == [project_id |-> pid, name |-> nCalls + 1, type |-> type,
               is_leftover |-> FALSE, position |-> 0]
  IN Request("createForceGroup", "force_groups", data, data, "auth")

createForceGroup(c, pid, type) ==
  /\ StartsWithin(c, ForceGroupRequest(pid, type), MaxCalls)
  /\ UNCHANGED page

createMatrixEntry(c, sid, gid, matches) ==
  Begin(c, "createMatrixEntry", "story_group_matrix",
        [story_id |-> sid, group_id |-> gid, matches |-> matches], "auth")

(***************************************************************************)
(* The backend's tables: what an insert must satisfy to be stored.          *)
(***************************************************************************)
Ids(rows) == {rows[i].id : i \in 1..Len(rows)}

\* Constraints without the CHECKs on type.
AcceptsAnyType(table, data) ==
  CASE table = "forces" -> data.story_id \in Ids(db.stories)
    [] table = "force_groups" -> data.project_id \in Ids(db.projects)
    [] OTHER -> TRUE

\* The declared constraints: foreign keys, enum checks, uniqueness.
Accepts(table, data) ==
  CASE table = "projects" ->
         /\ data.owner_id \in Ids(db.profiles)
         /\ data.status \in {"active", "completed", "archived"}
    [] table = "interviews" ->
         /\ data.project_id \in Ids(db.projects)
         /\ data.participant_age # <<>> =>
              /\ data.participant_age[1] > AgeLow
              /\ data.participant_age[1] < AgeHigh
    [] table = "stories" -> data.interview_id \in Ids(db.interviews)
    [] table = "force_groups" ->
         /\ data.project_id \in Ids(db.projects)
         /\ data.type \in GroupTypes
    [] table = "forces" ->
         /\ data.story_id \in Ids(db.stories)
         /\ data.type \in ForceTypes
    [] table = "story_group_matrix" ->
         /\ data.story_id \in Ids(db.stories)
         /\ data.group_id \in Ids(db.force_groups)
         /\ \A i \in 1..Len(db.story_group_matrix) :
              ~(/\ db.story_group_matrix[i].story_id = data.story_id
                /\ db.story_group_matrix[i].group_id = data.group_id)

\* The insert of `data` is executed: the row is stored under a fresh id.
Inserted(table, data) ==
  /\ db' = [db EXCEPT ![table] = Append(@, StoredRow(table, data, nextId))]
  /\ nextId' = nextId + 1

(***************************************************************************)
(* createEntityWithRetry.                                                  *)
(***************************************************************************)
\* The environment injects a fault (a timeout, a rejection, a lost session).
Fault ==
  /\ faults # 0
  /\ faults' = IF faults > 0 THEN faults - 1 ELSE faults

\* The call ends, returning or throwing: the helper's locals are gone.
Ended(r, how) ==
  [r EXCEPT !.pc = how, !.req = "none", !.attempt = 0, !.wait = 0]

\* The wrapper's catch: createStory falls back to createStoryDirect, every
\* other create operation rethrows.
WrapperCatch(r) ==
  IF r.op = "createStory"
    THEN [r EXCEPT !.pc = "direct_auth", !.req = "none", !.attempt = 0]
    ELSE Ended(r, "thrown")

\* A catch block that retries a timeout without looking at the attempt number.
CaughtUnbounded(r, kind) ==
  LET f == [r EXCEPT !.terminal = @ \/ kind # "timeout", !.req = "none"] IN
  IF kind = "timeout"
    THEN [f EXCEPT !.attempt = @ + 1, !.pc = "auth"]
    ELSE IF f.attempt = retries
      THEN WrapperCatch(f)
      ELSE [f EXCEPT !.pc = "backoff", !.wait = WaitTime(f.attempt)]

\* The catch block of an attempt, for an error thrown inside the try.
Caught(r, kind) ==
  LET f == [r EXCEPT !.terminal = @ \/ kind # "timeout", !.req = "none"] IN
  IF kind = "timeout" /\ f.attempt < retries
    THEN [f EXCEPT !.attempt = @ + 1, !.pc = "auth"]
    ELSE IF f.attempt = retries
      THEN WrapperCatch(f)
      ELSE [f EXCEPT !.pc = "backoff", !.wait = WaitTime(f.attempt)]

\* The branch for a response that carries an error.
ErrorResult(r) ==
  LET f == [r EXCEPT !.terminal = TRUE, !.req = "none"] IN
  IF f.attempt = retries
    THEN WrapperCatch(f)
    ELSE [f EXCEPT !.pc = "backoff", !.wait = WaitTime(f.attempt)]

\* supabase.auth.getUser() answers with the signed-in user: the insert is issued.
AuthVerified(c) ==
  /\ cr[c].pc = "auth"
  /\ session # 0
  /\ cr' = [cr EXCEPT ![c].pc = "insert", ![c].req = "sent",
                      ![c].inserts = @ + 1]
  /\ UNCHANGED <<store, db, nextId, session, orphans, nCalls, faults, nonCreate>>

\* getUser answers with no user: 'Authentication required ...' is thrown.
AuthRequired(c) ==
  /\ cr[c].pc = "auth"
  /\ session = 0
  /\ cr' = [cr EXCEPT ![c] = Caught(cr[c], "noauth")]
  /\ UNCHANGED <<store, db, nextId, session, orphans, nCalls, faults, nonCreate>>

\* The 10 s timer wins the race: 'Auth verification timeout'.
AuthTimeout(c) ==
  /\ cr[c].pc = "auth"
  /\ cr' = [cr EXCEPT ![c] = Caught(cr[c], "timeout")]
  /\ Fault
  /\ UNCHANGED <<store, db, nextId, session, orphans, nCalls, nonCreate>>

\* The backend executes the insert of the current attempt (or of
\* createStoryDirect); the response is on its way.
BackendInsert(c) ==
  /\ cr[c].pc \in {"insert", "direct_insert"}
  /\ cr[c].req = "sent"
  /\ Accepts(cr[c].table, cr[c].data)
  /\ Inserted(cr[c].table, cr[c].data)
  /\ cr' = [cr EXCEPT ![c].req = "landed",
                      ![c].row = StoredRow(cr[c].table, cr[c].data, nextId)]
  /\ UNCHANGED <<store, session, orphans, nCalls, faults, nonCreate>>

\* The backend refuses the insert for a constraint it violates, or the
\* request fails otherwise: authorization failure, connection error.
BackendReject(c) ==
  /\ cr[c].pc \in {"insert", "direct_insert"}
  /\ cr[c].req = "sent"
  /\ cr' = [cr EXCEPT ![c].req = "rejected"]
  /\ IF Accepts(cr[c].table, cr[c].data) THEN Fault ELSE UNCHANGED faults
  /\ UNCHANGED <<store, db, nextId, session, orphans, nCalls, nonCreate>>

\* A create operation that refetches nothing but adds its record twice.
AddToStoreTwice(op, row) ==
  store' = [store EXCEPT ![Collection(op)] = <<row, row>> \o @]

\* set((state) => ({ <collection>: [record, ...state.<collection>] })),
\* createForceGroup appends instead.
AddToStore(op, row) ==
  store' = [store EXCEPT ![Collection(op)] =
              IF op = "createForceGroup" THEN Append(@, row) ELSE <<row>> \o @]

\* The response with the stored row arrives before the 8 s timer: the helper
\* returns it and the wrapper adds it to the store (createProject first
\* looks up the owner's profile).
InsertReturned(c) ==
  /\ cr[c].pc = "insert"
  /\ cr[c].req = "landed"
  /\ IF cr[c].op = "createProject"
       THEN /\ cr' = [cr EXCEPT ![c].pc = "profile", ![c].req = "none",
                                ![c].attempt = 0]
            /\ UNCHANGED store
       ELSE /\ cr' = [cr EXCEPT ![c] = Ended(cr[c], "returned")]
            /\ AddToStore(cr[c].op, cr[c].row)
  /\ UNCHANGED <<db, nextId, session, orphans, nCalls, faults, nonCreate>>

\* The response carries an error.
InsertFailed(c) ==
  /\ cr[c].pc = "insert"
  /\ cr[c].req = "rejected"
  /\ cr' = [cr EXCEPT ![c] = ErrorResult(cr[c])]
  /\ UNCHANGED <<store, db, nextId, session, orphans, nCalls, faults, nonCreate>>

\* The 8 s timer wins the race.  The request is not cancelled: if the backend
\* has not executed it yet, it may still do so later.
InsertTimeout(c) ==
  /\ cr[c].pc = "insert"
  /\ orphans' = IF cr[c].req = "sent"
                  THEN orphans \cup {[table |-> cr[c].table, data |-> cr[c].data,
                                      attempt |-> cr[c].attempt]}
                  ELSE orphans
  /\ cr' = [cr EXCEPT ![c] = Caught(cr[c], "timeout")]
  /\ Fault
  /\ UNCHANGED <<store, db, nextId, session, nCalls, nonCreate>>

\* await new Promise(resolve => setTimeout(resolve, waitTime)), then the
\* next iteration of the loop.
BackoffElapsed(c) ==
  /\ cr[c].pc = "backoff"
  /\ cr' = [cr EXCEPT ![c].attempt = @ + 1, ![c].pc = "auth", ![c].wait = 0]
  /\ UNCHANGED <<store, db, nextId, session, orphans, nCalls, faults, nonCreate>>

\* An insert the client gave up on is executed after all.
OrphanLands(o) ==
  /\ o \in orphans
  /\ Accepts(o.table, o.data)
  /\ Inserted(o.table, o.data)
  /\ orphans' = orphans \ {o}
  /\ UNCHANGED <<store, session, cr, nCalls, faults, nonCreate>>

\* An insert the client gave up on is rejected or lost.
OrphanLost(o) ==
  /\ o \in orphans
  /\ orphans' = orphans \ {o}
  /\ UNCHANGED <<store, db, nextId, session, cr, nCalls, faults, nonCreate>>

(***************************************************************************)
(* createStoryDirect: createStory's fallback when the helper has thrown.   *)
(* Neither of its awaits is raced against a timer.                         *)
(***************************************************************************)
DirectAuthVerified(c) ==
  /\ cr[c].pc = "direct_auth"
  /\ session # 0
  /\ cr' = [cr EXCEPT ![c].pc = "direct_insert", ![c].req = "sent",
                      ![c].inserts = @ + 1]
  /\ UNCHANGED <<store, db, nextId, session, orphans, nCalls, faults, nonCreate>>

\* 'Not authenticated': createStory rethrows.
DirectNotAuthenticated(c) ==
  /\ cr[c].pc = "direct_auth"
  /\ session = 0
  /\ cr' = [cr EXCEPT ![c] = Ended(cr[c], "thrown")]
  /\ UNCHANGED <<store, db, nextId, session, orphans, nCalls, faults, nonCreate>>

DirectReturned(c) ==
  /\ cr[c].pc = "direct_insert"
  /\ cr[c].req = "landed"
  /\ cr' = [cr EXCEPT ![c] = Ended(cr[c], "returned")]
  /\ AddToStore(cr[c].op, cr[c].row)
  /\ UNCHANGED <<db, nextId, session, orphans, nCalls, faults, nonCreate>>

DirectFailed(c) ==
  /\ cr[c].pc = "direct_insert"
  /\ cr[c].req = "rejected"
  /\ cr' = [cr EXCEPT ![c] = Ended(cr[c], "thrown")]
  /\ UNCHANGED <<store, db, nextId, session, orphans, nCalls, faults, nonCreate>>

(***************************************************************************)
(* createProject: its own auth check before the helper, and the lookup of  *)
(* the owner's profile after it.                                           *)
(***************************************************************************)
ProjectAuthVerified(c) ==
  /\ cr[c].pc = "pre_auth"
  /\ session # 0
  /\ cr' = [cr EXCEPT ![c].pc = "auth", ![c].attempt = 1,
                      ![c].data.owner_id = session]
  /\ UNCHANGED <<store, db, nextId, session, orphans, nCalls, faults, nonCreate>>

\* 'User not authenticated - please log in again'
ProjectNotAuthenticated(c) ==
  /\ cr[c].pc = "pre_auth"
  /\ session = 0
  /\ cr' = [cr EXCEPT ![c] = Ended(cr[c], "thrown")]
  /\ UNCHANGED <<store, db, nextId, session, orphans, nCalls, faults, nonCreate>>

\* .from('profiles').select(...).eq('id', user.id).single(): the profile's id,
\* or 0 for null (no such row, or the lookup failed).
ProfileOf(ownerId, found) ==
  IF found /\ ownerId \in Ids(db.profiles) THEN ownerId ELSE 0

ProjectProfile(c, found) ==
  /\ cr[c].pc = "profile"
  /\ cr' = [cr EXCEPT ![c] = Ended(cr[c], "returned")]
  /\ AddToStore(cr[c].op,
                [profiles |-> ProfileOf(cr[c].data.owner_id, found)] @@ cr[c].row)
  /\ UNCHANGED <<db, nextId, session, orphans, nCalls, faults, nonCreate>>

\* The session ends while the client is working: it expired, or the user
\* signed out in another tab.
SessionEnds ==
  /\ session # 0
  /\ session' = 0
  /\ Fault
  /\ UNCHANGED <<store, db, nextId, cr, orphans, nCalls, nonCreate>>

(***************************************************************************)
(* fetchProjects and refreshProfiles.                                      *)
(***************************************************************************)
FSlots == 1..MaxOverlap

IdleFetch == [op |-> "none", pc |-> "idle", rows |-> <<>>]

FreeFetch(k) == fp[k].pc \in {"idle", "done", "skipped"}

Reverse(seq) == [i \in 1..Len(seq) |-> seq[Len(seq) + 1 - i]]

Take(seq, n) == IF Len(seq) <= n THEN seq ELSE SubSeq(seq, 1, n)

\* .from('projects').select(...).limit(50).order('created_at', { ascending: false })
SelectProjects == Take(Reverse(db.projects), ProjectsLimit)

\* projects.map(project => ({ ...project, profiles: profileMap.get(project.owner_id) || null }))
\* with the profiles the query .in('id', ownerIds) has returned (0 stands for null).
WithProfiles(rows, found) ==
  [i \in 1..Len(rows) |->
     [profiles |-> IF rows[i].owner_id \in found THEN rows[i].owner_id ELSE 0]
       @@ rows[i]]

\* .from('profiles').select('id, full_name, email').in('id', ownerIds); an
\* error leaves the map empty.
SelectProfiles(rows, ok) ==
  IF ok THEN {rows[i].owner_id : i \in 1..Len(rows)} \cap Ids(db.profiles) ELSE {}

\* A fetchProjects that never looks at isFetching.
fetchProjectsUnguarded(k) ==
  /\ FreeFetch(k)
  /\ store' = [store EXCEPT !.loading = TRUE, !.isFetching = TRUE]
  /\ fp' = [fp EXCEPT ![k] = [op |-> "fetchProjects", pc |-> "projects_sent",
                              rows |-> <<>>]]
  /\ UNCHANGED <<page, db, nextId, session, cr, nCalls, orphans, faults, fx, dl, up, auth,
                 principal, flow>>

\* The call: skipped when isFetching is set, else the flags are raised and
\* the projects query is issued.
fetchProjects(k) ==
  /\ FreeFetch(k)
  /\ IF store.isFetching
       THEN /\ fp' = [fp EXCEPT ![k] = [op |-> "fetchProjects", pc |-> "skipped",
                                        rows |-> <<>>]]
            /\ UNCHANGED store
       ELSE /\ store' = [store EXCEPT !.loading = TRUE, !.isFetching = TRUE]
            /\ fp' = [fp EXCEPT ![k] = [op |-> "fetchProjects",
                                        pc |-> "projects_sent", rows |-> <<>>]]
  /\ UNCHANGED <<page, db, nextId, session, cr, nCalls, orphans, faults, fx, dl, up, auth,
                 principal, flow>>

\* The backend executes the projects query, or fails to.
ProjectsQuery(k, ok) ==
  /\ fp[k].pc = "projects_sent"
  /\ fp' = [fp EXCEPT ![k].pc = IF ok THEN "projects_got" ELSE "projects_failed",
                      ![k].rows = IF ok THEN SelectProjects ELSE <<>>]
  /\ UNCHANGED <<page, store, db, nextId, session, cr, nCalls, orphans, faults, fx, dl, up, auth,
                 principal, flow>>

\* The response arrives.  An error is thrown and caught (projects: []); an
\* empty list is stored and the call returns; both run the finally block.
\* Otherwise the owners' profiles are queried.
ProjectsResponse(k) ==
  /\ fp[k].pc \in {"projects_got", "projects_failed"}
  /\ IF fp[k].pc = "projects_failed" \/ Len(fp[k].rows) = 0
       THEN /\ store' = [store EXCEPT !.projects = <<>>, !.loading = FALSE,
                                      !.isFetching = FALSE]
            /\ fp' = [fp EXCEPT ![k].pc = "done"]
       ELSE /\ fp' = [fp EXCEPT ![k].pc = "profiles_sent"]
            /\ UNCHANGED store
  /\ UNCHANGED <<page, db, nextId, session, cr, nCalls, orphans, faults, fx, dl, up, auth,
                 principal, flow>>

\* The profiles arrive (or the query fails, which is only logged): the list
\* is stored and the finally block lowers the flags.
ProfilesResponse(k, ok) ==
  /\ fp[k].pc = "profiles_sent"
  /\ store' = [store EXCEPT
                 !.projects = WithProfiles(fp[k].rows, SelectProfiles(fp[k].rows, ok)),
                 !.loading = FALSE, !.isFetching = FALSE]
  /\ fp' = [fp EXCEPT ![k].pc = "done"]
  /\ UNCHANGED <<page, db, nextId, session, cr, nCalls, orphans, faults, fx, dl, up, auth,
                 principal, flow>>

\* refreshProfiles: returns at once when the store is busy or holds no
\* project, else queries the profiles of the projects it has read.
refreshProfiles(k) ==
  /\ FreeFetch(k)
  /\ IF store.isFetching \/ Len(store.projects) = 0
       THEN fp' = [fp EXCEPT ![k] = [op |-> "refreshProfiles", pc |-> "skipped",
                                     rows |-> <<>>]]
       ELSE fp' = [fp EXCEPT ![k] = [op |-> "refreshProfiles",
                                     pc |-> "refresh_sent",
                                     rows |-> store.projects]]
  /\ UNCHANGED <<page, store, db, nextId, session, cr, nCalls, orphans, faults, fx, dl, up, auth,
                 principal, flow>>

\* The profiles arrive: the projects read at the call are stored with them.
\* On an error the call returns.
RefreshResponse(k, ok) ==
  /\ fp[k].pc = "refresh_sent"
  /\ IF ok
       THEN store' = [store EXCEPT
                        !.projects = WithProfiles(fp[k].rows,
                                                  SelectProfiles(fp[k].rows, TRUE))]
       ELSE UNCHANGED store
  /\ fp' = [fp EXCEPT ![k].pc = "done"]
  /\ UNCHANGED <<page, db, nextId, session, cr, nCalls, orphans, faults, fx, dl, up, auth,
                 principal, flow>>

(***************************************************************************)
(* The project-scoped fetches: fetchInterviews, fetchStories, fetchForces, *)
(* fetchForceGroups, fetchMatrixEntries.  Each issues one select and, when *)
(* the response arrives, replaces its collection in the store or throws.   *)
(***************************************************************************)
XSlots == {1, 2}

IdleScoped == [op |-> "none", projectId |-> 0, pc |-> "idle", rows |-> <<>>]

FreeScoped(k) == fx[k].pc \in {"idle", "done", "thrown"}

\* The store field a scoped fetch replaces.
Target(op) ==
  CASE op = "fetchInterviews"    -> "interviews"
    [] op = "fetchStories"       -> "stories"
    [] op = "fetchForces"        -> "forces"
    [] op = "fetchForceGroups"   -> "forceGroups"
    [] op = "fetchMatrixEntries" -> "matrixEntries"

Row(rows, id) == rows[CHOOSE i \in 1..Len(rows) : rows[i].id = id]

\* stories!inner(interviews!inner(project_id)): the project a story hangs on.
ProjectOfStory(sid) ==
  Row(db.interviews, Row(db.stories, sid).interview_id).project_id

\* .order('position', { ascending: true }): rows by ascending position,
\* rows of equal position in insertion order.
RECURSIVE ByPosition(_)
ByPosition(rows) ==
  IF rows = <<>> THEN <<>>
  ELSE LET i == CHOOSE i \in 1..Len(rows) :
                  \A j \in 1..Len(rows) :
                    \/ rows[i].position < rows[j].position
                    \/ rows[i].position = rows[j].position /\ i <= j
           Rest(j) == IF j < i THEN rows[j] ELSE rows[j + 1]
       IN <<rows[i]>> \o ByPosition([j \in 1..(Len(rows) - 1) |-> Rest(j)])

\* .eq('project_id', projectId).order('created_at', { ascending: false })
SelectInterviews(pid) ==
  LET Test(r) == r.project_id = pid
  IN Reverse(SelectSeq(db.interviews, Test))

\* .eq('interviews.project_id', projectId), newest first
SelectStories(pid) ==
  LET Test(r) == Row(db.interviews, r.interview_id).project_id = pid
  IN Reverse(SelectSeq(db.stories, Test))

\* .eq('stories.interviews.project_id', projectId), newest first
SelectForces(pid) ==
  LET Test(r) == ProjectOfStory(r.story_id) = pid
  IN Reverse(SelectSeq(db.forces, Test))

\* .eq('project_id', projectId).order('position', { ascending: true })
SelectForceGroups(pid) ==
  LET Test(r) == r.project_id = pid
  IN ByPosition(SelectSeq(db.force_groups, Test))

\* .eq('stories.interviews.project_id', projectId), newest first
SelectMatrixEntries(pid) ==
  LET Test(r) == ProjectOfStory(r.story_id) = pid
  IN Reverse(SelectSeq(db.story_group_matrix, Test))

Select(op, pid) ==
  CASE op = "fetchInterviews"    -> SelectInterviews(pid)
    [] op = "fetchStories"       -> SelectStories(pid)
    [] op = "fetchForces"        -> SelectForces(pid)
    [] op = "fetchForceGroups"   -> SelectForceGroups(pid)
    [] op = "fetchMatrixEntries" -> SelectMatrixEntries(pid)

\* The call issues its select at once: no flag is read, none is set.
BeginScoped(k, op, pid) ==
  /\ FreeScoped(k)
  /\ fx' = [fx EXCEPT ![k] = [IdleScoped EXCEPT !.op = op, !.projectId = pid,
                                                !.pc = "sent"]]
  /\ UNCHANGED <<page, store, db, nextId, session, cr, nCalls, orphans, faults,
                 fp, dl, up, auth, principal, flow>>

fetchInterviews(k, pid) == BeginScoped(k, "fetchInterviews", pid)

fetchStories(k, pid) == BeginScoped(k, "fetchStories", pid)

fetchForces(k, pid) == BeginScoped(k, "fetchForces", pid)

fetchForceGroups(k, pid) == BeginScoped(k, "fetchForceGroups", pid)

fetchMatrixEntries(k, pid) == BeginScoped(k, "fetchMatrixEntries", pid)

\* The backend executes the select, or the request fails.
ScopedQuery(k, ok) ==
  /\ fx[k].pc = "sent"
  /\ fx' = [fx EXCEPT ![k].pc = IF ok THEN "got" ELSE "failed",
                      ![k].rows = IF ok THEN Select(fx[k].op, fx[k].projectId)
                                        ELSE <<>>]
  /\ UNCHANGED <<page, store, db, nextId, session, cr, nCalls, orphans, faults,
                 fp, dl, up, auth, principal, flow>>

\* if (error) throw error; set({ <collection>: data || [] })
ScopedResponse(k) ==
  /\ fx[k].pc \in {"got", "failed"}
  /\ IF fx[k].pc = "got"
       THEN /\ store' = [store EXCEPT ![Target(fx[k].op)] = fx[k].rows]
            /\ fx' = [fx EXCEPT ![k].pc = "done", ![k].rows = <<>>]
       ELSE /\ fx' = [fx EXCEPT ![k].pc = "thrown"]
            /\ UNCHANGED store
  /\ UNCHANGED <<page, db, nextId, session, cr, nCalls, orphans, faults,
                 fp, dl, up, auth, principal, flow>>

(***************************************************************************)
(* deleteForce.                                                            *)
(***************************************************************************)
DSlots == {1}

IdleDelete == [id |-> 0, who |-> [id |-> 0, role |-> "anon"], pc |-> "idle"]

FreeDelete(k) == dl[k].pc \in {"idle", "done", "thrown"}

\* A filter that leaves the deleted force in the list.
WithoutForceStale(forces, id) == forces

\* forces.filter(f => f.id !== id)
WithoutForce(forces, id) ==
  LET Test(f) == f.id # id
  IN SelectSeq(forces, Test)

\* The delete request for force `id` is issued, in the role the client has.
deleteForce(k, id) ==
  /\ FreeDelete(k)
  /\ dl' = [dl EXCEPT ![k] = [id |-> id, who |-> Caller, pc |-> "sent"]]
  /\ UNCHANGED <<page, store, db, nextId, session, cr, nCalls, orphans, faults,
                 fp, fx, up, auth, principal, flow>>

\* The backend deletes the rows with that id that the policies let the
\* caller delete (none is not an error).
BackendDelete(k) ==
  /\ dl[k].pc = "sent"
  /\ db' = IF Permitted(dl[k].who, "forces", "delete", NoRow)
             THEN [db EXCEPT !.forces = WithoutForce(@, dl[k].id)]
             ELSE db
  /\ dl' = [dl EXCEPT ![k].pc = "deleted"]
  /\ UNCHANGED <<page, store, nextId, session, cr, nCalls, orphans, faults,
                 fp, fx, up, auth, principal, flow>>

\* The delete request fails.
BackendDeleteReject(k) ==
  /\ dl[k].pc = "sent"
  /\ dl' = [dl EXCEPT ![k].pc = "failed"]
  /\ Fault
  /\ UNCHANGED <<page, store, db, nextId, session, cr, nCalls, orphans,
                 fp, fx, up, auth, principal, flow>>

\* The response arrives: the force leaves the store, or the error is thrown.
DeleteResponse(k) ==
  /\ dl[k].pc \in {"deleted", "failed"}
  /\ IF dl[k].pc = "deleted"
       THEN /\ store' = [store EXCEPT !.forces = WithoutForce(@, dl[k].id)]
            /\ dl' = [dl EXCEPT ![k].pc = "done"]
       ELSE /\ dl' = [dl EXCEPT ![k].pc = "thrown"]
            /\ UNCHANGED store
  /\ UNCHANGED <<page, db, nextId, session, cr, nCalls, orphans, faults,
                 fp, fx, up, auth, principal, flow>>

(***************************************************************************)
(* The views' completeness computations.                                   *)
(***************************************************************************)
\* forces.filter(f => f.story_id === storyId && f.type === type)
getStoryForces(forces, storyId, type) ==
  LET Test(f) == f.story_id = storyId /\ f.type = type
  IN SelectSeq(forces, Test)

\* A completeness that asks for a push or a pull force.
getStoryCompletenessEither(forces, storyId) ==
  LET pushes == getStoryForces(forces, storyId, "push")
      pulls == getStoryForces(forces, storyId, "pull")
      habits == getStoryForces(forces, storyId, "habit")
      anxieties == getStoryForces(forces, storyId, "anxiety")
      hasRequiredForces == Len(pushes) > 0 \/ Len(pulls) > 0
  IN [isComplete |-> hasRequiredForces,
      hasRequiredForces |-> hasRequiredForces,
      totalForces |-> Len(pushes) + Len(pulls) + Len(habits) + Len(anxieties),
      pushCount |-> Len(pushes), pullCount |-> Len(pulls),
      habitCount |-> Len(habits), anxietyCount |-> Len(anxieties)]

\* StoriesManager's getStoryCompleteness.
getStoryCompleteness(forces, storyId) ==
  LET pushes == getStoryForces(forces, storyId, "push")
      pulls == getStoryForces(forces, storyId, "pull")
      habits == getStoryForces(forces, storyId, "habit")
      anxieties == getStoryForces(forces, storyId, "anxiety")
      hasRequiredForces == Len(pushes) > 0 /\ Len(pulls) > 0
  IN [isComplete |-> hasRequiredForces,
      hasRequiredForces |-> hasRequiredForces,
      totalForces |-> Len(pushes) + Len(pulls) + Len(habits) + Len(anxieties),
      pushCount |-> Len(pushes), pullCount |-> Len(pulls),
      habitCount |-> Len(habits), anxietyCount |-> Len(anxieties)]

\* The Interviews page's getInterviewStats.
getInterviewStats(stories, forces, interviewId) ==
  LET OfInterview(s) == s.interview_id = interviewId
      interviewStories == SelectSeq(stories, OfInterview)
      storyIds == Ids(interviewStories)
      InInterview(f) == f.story_id \in storyIds
      interviewForces == SelectSeq(forces, InInterview)
      Complete(story) ==
        LET Push(f) == f.story_id = story.id /\ f.type = "push"
            Pull(f) == f.story_id = story.id /\ f.type = "pull"
        IN Len(SelectSeq(forces, Push)) > 0 /\ Len(SelectSeq(forces, Pull)) > 0
      completeStories == SelectSeq(interviewStories, Complete)
  IN [storyCount |-> Len(interviewStories),
      forceCount |-> Len(interviewForces),
      completeStories |-> Len(completeStories),
      isComplete |-> Len(interviewStories) > 0
                     /\ Len(completeStories) = Len(interviewStories),
      hasStories |-> Len(interviewStories) > 0]

(***************************************************************************)
(* The auth store.  Strings are sequences of characters; an optional       *)
(* attribute of the user object is a sequence of no element (undefined) or *)
(* of one element (the string).                                            *)
(***************************************************************************)
\* 0: initialize; 1, 2: invocations of the onAuthStateChange handler.
FlowIds == {0, 1, 2}

HSlots == FlowIds \ {0}

\* The locals of a flow: the user it works for, `profile`, `newProfile`.
IdleFlow == [pc |-> "idle", user |-> 0, profile |-> NoRow, newProfile |-> NoRow]

QuietFlows ==
  [f |-> [i \in FlowIds |-> IdleFlow], out |-> "idle",
   listening |-> FALSE, signedOut |-> FALSE]

Truthy(opt) == opt # <<>> /\ opt[1] # <<>>

\* s.split('@')[0]: the characters before the first '@', all of s without one.
RECURSIVE BeforeAt(_)
BeforeAt(s) ==
  IF s = <<>> \/ Head(s) = "@" THEN <<>> ELSE <<Head(s)>> \o BeforeAt(Tail(s))

\* A chain that asks the alternate name field first.
FallbackNameSwapped(u) ==
  IF Truthy(u.name) THEN u.name[1]
  ELSE IF Truthy(u.full_name) THEN u.full_name[1]
  ELSE IF u.email # <<>> /\ BeforeAt(u.email[1]) # <<>> THEN BeforeAt(u.email[1])
  ELSE <<"U", "s", "e", "r">>

\* user.user_metadata?.full_name || user.user_metadata?.name ||
\* user.email?.split('@')[0] || 'User'
FallbackName(u) ==
  IF Truthy(u.full_name) THEN u.full_name[1]
  ELSE IF Truthy(u.name) THEN u.name[1]
  ELSE IF u.email # <<>> /\ BeforeAt(u.email[1]) # <<>> THEN BeforeAt(u.email[1])
  ELSE <<"U", "s", "e", "r">>

\* The row the client inserts, with the column default of `role`.
NewProfileRow(u) ==
  [id |-> u.id,
   email |-> IF Truthy(u.email) THEN u.email[1] ELSE <<>>,
   full_name |-> FallbackName(u),
   role |-> "researcher"]

\* The trigger on auth.users: COALESCE takes the first value that is not
\* NULL, split_part the text before the first '@'.
handle_new_user(u) ==
  [id |-> u.id,
   email |-> u.email[1],
   full_name |-> IF u.full_name # <<>> THEN u.full_name[1]
                 ELSE IF u.name # <<>> THEN u.name[1]
                 ELSE BeforeAt(u.email[1]),
   role |-> "researcher"]

HasProfile(id) == id \in Ids(db.profiles)

\* set({ user, profile }); initialize then runs its finally block and
\* registers the handler.
Finish(i, profile, newProfile) ==
  /\ auth' = [auth EXCEPT !.user = flow.f[i].user, !.profile = profile,
                          !.loading = IF i = 0 THEN FALSE ELSE @]
  /\ flow' = [flow EXCEPT !.f[i].pc = "done", !.f[i].profile = profile,
                          !.f[i].newProfile = newProfile,
                          !.listening = @ \/ i = 0]

\* App's effect calls initialize once, when it mounts.
initialize ==
  /\ flow.f[0].pc = "idle"
  /\ ~flow.listening
  /\ flow' = [flow EXCEPT !.f[0].pc = "getUser"]
  /\ UNCHANGED <<page, store, db, nextId, session, cr, nCalls, orphans, faults,
                 fp, fx, dl, up, auth, principal>>

\* await supabase.auth.getUser(): with a user the profile is looked up; with
\* none, or when the call throws, only the finally block runs.
GetUserResponse(ok) ==
  /\ flow.f[0].pc = "getUser"
  /\ IF ok /\ session # 0
       THEN /\ flow' = [flow EXCEPT !.f[0].pc = "select", !.f[0].user = session]
            /\ UNCHANGED auth
       ELSE /\ flow' = [flow EXCEPT !.f[0].pc = "done", !.listening = TRUE]
            /\ auth' = [auth EXCEPT !.loading = FALSE]
  /\ UNCHANGED <<page, store, db, nextId, session, cr, nCalls, orphans, faults,
                 fp, fx, dl, up, principal>>

\* The auth service reports an event (INITIAL_SESSION, TOKEN_REFRESHED, ...)
\* to the registered handler: with a session the handler looks the profile
\* up, without one it clears the store.
AuthEvent(k) ==
  /\ flow.listening
  /\ flow.f[k].pc \in {"idle", "done"}
  /\ IF session # 0
       THEN /\ flow' = [flow EXCEPT !.f[k] = [IdleFlow EXCEPT !.pc = "select",
                                                             !.user = session]]
            /\ UNCHANGED auth
       ELSE /\ auth' = [auth EXCEPT !.user = 0, !.profile = NoRow]
            /\ UNCHANGED flow
  /\ UNCHANGED <<page, store, db, nextId, session, cr, nCalls, orphans, faults,
                 fp, fx, dl, up, principal>>

\* The principal signs in (signIn resolves): the auth service holds the
\* session and reports SIGNED_IN to the handler if one is registered.
SignIn(k) ==
  /\ session = 0
  /\ session' = principal.id
  /\ flow.listening => flow.f[k].pc \in {"idle", "done"}
  /\ IF flow.listening
       THEN flow' = [flow EXCEPT !.f[k] = [IdleFlow EXCEPT !.pc = "select",
                                                          !.user = principal.id],
                                 !.signedOut = FALSE]
       ELSE flow' = [flow EXCEPT !.signedOut = FALSE]
  /\ UNCHANGED <<page, store, db, nextId, cr, nCalls, orphans, faults,
                 fp, fx, dl, up, auth, principal>>

\* .from('profiles').select('*').eq('id', user.id).single() answers: the
\* row, no row (PGRST116: the insert follows), or another error.
ProfileSelect(i, ok) ==
  /\ flow.f[i].pc = "select"
  /\ IF ~ok
       THEN Finish(i, NoRow, NoRow)
       ELSE IF HasProfile(flow.f[i].user)
         THEN Finish(i, Row(db.profiles, flow.f[i].user), NoRow)
         ELSE /\ flow' = [flow EXCEPT !.f[i].pc = "insert"]
              /\ UNCHANGED auth
  /\ UNCHANGED <<page, store, db, nextId, session, cr, nCalls, orphans, faults,
                 fp, fx, dl, up, principal>>

\* .insert({...}).select().single() answers: the stored row, or an error
\* (the primary key is taken, or the request fails), which is only logged.
ProfileInsert(i, ok) ==
  /\ flow.f[i].pc = "insert"
  /\ IF ok /\ ~HasProfile(flow.f[i].user)
       THEN /\ db' = [db EXCEPT !.profiles = Append(@, NewProfileRow(principal))]
            /\ Finish(i, NewProfileRow(principal), NewProfileRow(principal))
       ELSE /\ Finish(i, NoRow, NoRow)
            /\ UNCHANGED db
  /\ UNCHANGED <<page, store, nextId, session, cr, nCalls, orphans, faults,
                 fp, fx, dl, up, principal>>

\* signOut is called: await supabase.auth.signOut().
signOut ==
  /\ flow.out # "sent"
  /\ auth.user # 0
  /\ flow' = [flow EXCEPT !.out = "sent"]
  /\ UNCHANGED <<page, store, db, nextId, session, cr, nCalls, orphans, faults,
                 fp, fx, dl, up, auth, principal>>

\* The auth service has ended the session (and reported SIGNED_OUT to the
\* handler, which clears the store): set({ user: null, profile: null }).
\* With an error the call throws and the store stays as it is.
SignOutResponse(ok) ==
  /\ flow.out = "sent"
  /\ IF ok
       THEN /\ session' = 0
            /\ auth' = [auth EXCEPT !.user = 0, !.profile = NoRow]
            /\ flow' = [flow EXCEPT !.out = "done", !.signedOut = TRUE]
       ELSE /\ flow' = [flow EXCEPT !.out = "thrown"]
            /\ UNCHANGED <<session, auth>>
  /\ UNCHANGED <<page, store, db, nextId, cr, nCalls, orphans, faults,
                 fp, fx, dl, up, principal>>

\* The slots of the update calls (the operations themselves come with the
\* backend's update rules below).
USlots == {1, 2}

\* `rows` records how many rows the update has matched.
IdleUpdate ==
  [op |-> "none", table |-> "none", id |-> 0, data |-> NoRow,
   who |-> [id |-> 0, role |-> "anon"], rows |-> 0, pc |-> "idle"]

FreeUpdate(k) == up[k].pc \in {"idle", "done", "thrown"}

(***************************************************************************)
(* Initial states.                                                         *)
(***************************************************************************)
Slots == {1, 2}

EmptyStore ==
  [projects |-> <<>>, interviews |-> <<>>, stories |-> <<>>, forces |-> <<>>,
   forceGroups |-> <<>>, matrixEntries |-> <<>>,
   loading |-> FALSE, isFetching |-> FALSE]

\* A backend that holds one project with one interview, two stories and one
\* force group, owned by principal 1.
SeedDb ==
  [profiles |-> <<[id |-> 1]>>,
   projects |-> <<[id |-> 2, name |-> 0, owner_id |-> 1, status |-> "active"]>>,
   interviews |-> <<[id |-> 3, project_id |-> 2, participant_name |-> 0,
                    participant_age |-> <<>>]>>,
   stories |-> <<[id |-> 4, interview_id |-> 3, title |-> 0],
                 [id |-> 5, interview_id |-> 3, title |-> 0]>>,
   force_groups |-> <<[id |-> 6, project_id |-> 2, name |-> 0, type |-> "push",
                       is_leftover |-> FALSE, position |-> 0]>>,
   forces |-> <<>>,
   story_group_matrix |-> <<>>]

QuietCreate ==
  /\ cr = [c \in Slots |-> IdleCall]
  /\ nCalls = 0
  /\ orphans = {}

QuietProjects == fp = [k \in FSlots |-> IdleFetch]

\* The pages' own state before any page is visited: the matrix validation
\* page shows its first story, with no validation error, on its own route;
\* the grouping page has not been visited and no initializeGroups runs.
IdleInit == [pc |-> "idle", push |-> FALSE, pull |-> FALSE, made |-> 0]

FreshPages ==
  [index |-> 0, errors |-> 0, route |-> "matrix",
   visits |-> 0, init |-> [v \in Slots |-> IdleInit]]

QuietData ==
  /\ fx = [k \in XSlots |-> IdleScoped]
  /\ dl = [k \in DSlots |-> IdleDelete]
  /\ up = [k \in USlots |-> IdleUpdate]
  /\ page = FreshPages

\* A principal with a display name and an email.
Researcher ==
  [id |-> 1, full_name |-> << <<"A", "l">> >>, name |-> <<>>,
   email |-> << <<"a", "l", "@", "x">> >>]

\* The auth store of a signed-in user, with no auth flow running.
QuietAuth ==
  /\ auth = [user |-> 1, profile |-> [id |-> 1], loading |-> FALSE]
  /\ principal = Researcher
  /\ flow = [QuietFlows EXCEPT !.f[0].pc = "done", !.listening = TRUE]

InitCreate ==
  /\ store = EmptyStore
  /\ db = SeedDb
  /\ nextId = 7
  /\ session = 1
  /\ faults = -1
  /\ QuietCreate
  /\ QuietProjects
  /\ QuietData
  /\ QuietAuth

(***************************************************************************)
(* SpecCreate: create calls made one after the other, each through         *)
(* createEntityWithRetry, against a backend that may reject or delay.  The *)
(* new rows go under the seeded project, interview, story and group.       *)
(***************************************************************************)
NextCreate ==
  \/ /\ \A c \in Slots : Free(c)
     /\ \/ createProject(1)
        \/ \E p \in Ids(SeedDb.projects) : createInterview(1, p, <<>>)
        \/ \E i \in Ids(SeedDb.interviews) : createStory(1, i)
        \/ createForce(1, SeedDb.stories[1].id, "push")
        \/ \E p \in Ids(SeedDb.projects) : createForceGroup(1, p, "pull")
        \/ createMatrixEntry(1, SeedDb.stories[1].id,
                              SeedDb.force_groups[1].id, <<TRUE>>)
  \/ \E c \in Slots :
       \/ AuthVerified(c) \/ AuthRequired(c) \/ AuthTimeout(c)
       \/ BackendInsert(c) \/ BackendReject(c)
       \/ InsertReturned(c) \/ InsertFailed(c) \/ InsertTimeout(c)
       \/ BackoffElapsed(c)
       \/ DirectAuthVerified(c) \/ DirectNotAuthenticated(c)
       \/ DirectReturned(c) \/ DirectFailed(c)
       \/ ProjectAuthVerified(c) \/ ProjectNotAuthenticated(c)
       \/ \E found \in BOOLEAN : ProjectProfile(c, found)
  \/ \E o \in orphans : OrphanLands(o) \/ OrphanLost(o)
  \/ SessionEnds

SpecCreate == InitCreate /\ [][NextCreate]_vars

(***************************************************************************)
(* Spec: the dashboard's project list.  fetchProjects and refreshProfiles  *)
(* calls overlap freely while projects appear at the backend.              *)
(***************************************************************************)
Init ==
  /\ store = EmptyStore
  /\ db \in {SeedDb, [SeedDb EXCEPT !.projects = <<>>, !.interviews = <<>>,
                                       !.stories = <<>>, !.force_groups = <<>>]}
  /\ nextId = 7
  /\ session = 1
  /\ faults = -1
  /\ QuietCreate
  /\ QuietProjects
  /\ QuietData
  /\ QuietAuth

\* Another signed-in researcher creates a project: every row is visible to
\* every authenticated principal.
ProjectAppears ==
  /\ Len(db.projects) < MaxProjects
  /\ Inserted("projects", [name |-> 0, owner_id |-> 1, status |-> "active"])
  /\ UNCHANGED <<store, session, cr, nCalls, orphans, faults, nonCreate>>

Next ==
  \/ \E k \in FSlots :
       \/ fetchProjects(k)
       \/ \E ok \in BOOLEAN : ProjectsQuery(k, ok)
       \/ ProjectsResponse(k)
       \/ \E ok \in BOOLEAN : ProfilesResponse(k, ok)
       \/ refreshProfiles(k)
       \/ \E ok \in BOOLEAN : RefreshResponse(k, ok)
  \/ ProjectAppears

Spec == Init /\ [][Next]_vars

(***************************************************************************)
(* SpecData: a project page loads its data; the scoped fetches overlap.    *)
(***************************************************************************)
InitData ==
  /\ store = EmptyStore
  /\ db = SeedDb
  /\ nextId = 7
  /\ session = 1
  /\ faults = -1
  /\ QuietCreate
  /\ QuietProjects
  /\ QuietData
  /\ QuietAuth

NextData ==
  \E k \in XSlots :
    \/ \E p \in Ids(db.projects) :
         \/ fetchInterviews(k, p)
         \/ fetchStories(k, p)
         \/ fetchForces(k, p)
         \/ fetchForceGroups(k, p)
         \/ fetchMatrixEntries(k, p)
    \/ \E ok \in BOOLEAN : ScopedQuery(k, ok)
    \/ ScopedResponse(k)

SpecData == InitData /\ [][NextData]_vars

(***************************************************************************)
(* SpecForces: the stories page of the seeded project is open; forces are  *)
(* added with createForce and removed with deleteForce.                    *)
(***************************************************************************)
\* The types of the forces story 4 may hold when the page opens, oldest first.
SeedForces ==
  {<<>>, <<"push">>, <<"habit">>, <<"push", "habit">>, <<"anxiety", "pull">>}

SeedForceRows(seed) ==
  [i \in 1..Len(seed) |->
     StoredRow("forces", [story_id |-> 4, type |-> seed[i],
                          description |-> 0], 6 + i)]

InitForces ==
  /\ \E seed \in SeedForces :
       /\ db = [SeedDb EXCEPT !.forces = SeedForceRows(seed)]
       /\ nextId = 7 + Len(seed)
  /\ store = [EmptyStore EXCEPT !.interviews = SelectInterviews(2),
                                !.stories = SelectStories(2),
                                !.forces = SelectForces(2)]
  /\ session = 1
  /\ faults = MaxFaults
  /\ QuietCreate
  /\ QuietProjects
  /\ QuietData
  /\ QuietAuth

NextForces ==
  \/ /\ \A c \in Slots : Free(c)
     /\ \E st \in Ids(store.stories), t \in {"push", "pull"} : createForce(1, st, t)
  \/ \E c \in Slots :
       \/ AuthVerified(c) \/ AuthRequired(c) \/ AuthTimeout(c)
       \/ BackendInsert(c) \/ BackendReject(c)
       \/ InsertReturned(c) \/ InsertFailed(c) \/ InsertTimeout(c)
       \/ BackoffElapsed(c)
  \/ \E o \in orphans : OrphanLands(o) \/ OrphanLost(o)
  \/ SessionEnds
  \/ \E k \in DSlots :
       \/ \E id \in Ids(store.forces) : deleteForce(k, id)
       \/ BackendDelete(k) \/ BackendDeleteReject(k)
       \/ DeleteResponse(k)

SpecForces == InitForces /\ [][NextForces]_vars

(***************************************************************************)
(* SpecAuth: the application starts for a principal whose profile may be   *)
(* missing; sign-ins, auth events and sign-outs follow.                    *)
(***************************************************************************)
\* The backend of a principal who owns nothing yet.
EmptyDb ==
  [SeedDb EXCEPT !.profiles = <<>>, !.projects = <<>>, !.interviews = <<>>,
                 !.stories = <<>>, !.force_groups = <<>>]

\* The principals: each name field undefined, empty or given; the email
\* undefined or given.
Principals ==
  [id : {1},
   full_name : {<<>>, << <<>> >>, << <<"A", "l">> >>},
   name : {<<>>, << <<"A", "l", "e", "x">> >>},
   email : {<<>>, << <<"a", "l", "@", "x">> >>}]

InitAuth ==
  /\ principal \in Principals
  /\ \/ db = EmptyDb
     \/ /\ principal.email # <<>>
        /\ db = [EmptyDb EXCEPT !.profiles = <<handle_new_user(principal)>>]
  /\ session \in {0, 1}
  /\ auth = [user |-> 0, profile |-> NoRow, loading |-> TRUE]
  /\ flow = QuietFlows
  /\ store = EmptyStore
  /\ nextId = 7
  /\ faults = -1
  /\ QuietCreate
  /\ QuietProjects
  /\ QuietData

NextAuth ==
  \/ initialize
  \/ \E ok \in BOOLEAN : GetUserResponse(ok)
  \/ \E k \in HSlots : AuthEvent(k) \/ SignIn(k)
  \/ \E i \in FlowIds, ok \in BOOLEAN : ProfileSelect(i, ok) \/ ProfileInsert(i, ok)
  \/ signOut
  \/ \E ok \in BOOLEAN : SignOutResponse(ok)

SpecAuth == InitAuth /\ [][NextAuth]_vars

(***************************************************************************)
(* The backend under direct requests: the constraints checked on update    *)
(* and the foreign keys' ON DELETE actions.                                *)
(***************************************************************************)
\* The row with the columns of `patch` replaced.
Patched(row, patch) ==
  [f \in DOMAIN row |-> IF f \in DOMAIN patch THEN patch[f] ELSE row[f]]

\* The constraints an updated row of forces must satisfy (group_id may be
\* NULL, written 0).
AcceptsUpdate(table, row) ==
  CASE table = "forces" ->
         /\ row.story_id \in Ids(db.stories)
         /\ row.type \in ForceTypes
         /\ row.group_id = 0 \/ row.group_id \in Ids(db.force_groups)
    [] table = "force_groups" ->
         /\ row.project_id \in Ids(db.projects)
         /\ row.type \in GroupTypes
    [] table = "stories" -> row.interview_id \in Ids(db.interviews)
    [] table = "story_group_matrix" ->
         /\ row.story_id \in Ids(db.stories)
         /\ row.group_id \in Ids(db.force_groups)
         /\ \A i \in 1..Len(db.story_group_matrix) :
              (/\ db.story_group_matrix[i].story_id = row.story_id
               /\ db.story_group_matrix[i].group_id = row.group_id)
                => db.story_group_matrix[i].id = row.id

\* UPDATE table SET patch WHERE id = id: every row with that id (one or
\* none) is replaced by its patched version.
Updated(d, table, id, patch) ==
  [d EXCEPT ![table] =
     [i \in 1..Len(@) |-> IF @[i].id = id THEN Patched(@[i], patch) ELSE @[i]]]

Without(rows, ids) ==
  LET Keep(r) == r.id \notin ids
  IN SelectSeq(rows, Keep)

IdsWhere(rows, column, ids) ==
  {rows[i].id : i \in {j \in 1..Len(rows) : rows[j][column] \in ids}}

\* forces.story_id and story_group_matrix.story_id: ON DELETE CASCADE.
DeleteStories(d, ids) ==
  [d EXCEPT !.stories = Without(@, ids),
            !.forces = Without(@, IdsWhere(d.forces, "story_id", ids)),
            !.story_group_matrix =
               Without(@, IdsWhere(d.story_group_matrix, "story_id", ids))]

\* stories.interview_id: ON DELETE CASCADE.
DeleteInterviews(d, ids) ==
  [DeleteStories(d, IdsWhere(d.stories, "interview_id", ids))
     EXCEPT !.interviews = Without(@, ids)]

\* story_group_matrix.group_id: ON DELETE CASCADE; forces.group_id: ON
\* DELETE SET NULL.
DeleteGroups(d, ids) ==
  [d EXCEPT !.force_groups = Without(@, ids),
            !.story_group_matrix =
               Without(@, IdsWhere(d.story_group_matrix, "group_id", ids)),
            !.forces = [i \in 1..Len(@) |->
                          IF @[i].group_id \in ids
                            THEN [@[i] EXCEPT !.group_id = 0] ELSE @[i]]]

\* interviews.project_id and force_groups.project_id: ON DELETE CASCADE.
DeleteProjects(d, ids) ==
  [DeleteGroups(DeleteInterviews(d, IdsWhere(d.interviews, "project_id", ids)),
                IdsWhere(d.force_groups, "project_id", ids))
     EXCEPT !.projects = Without(@, ids)]

\* DELETE FROM table WHERE id = id, with the actions of the foreign keys
\* that reference the table.
Deleted(d, table, id) ==
  CASE table = "projects" -> DeleteProjects(d, {id})
    [] table = "interviews" -> DeleteInterviews(d, {id})
    [] table = "stories" -> DeleteStories(d, {id})
    [] table = "force_groups" -> DeleteGroups(d, {id})
    [] table = "profiles" ->
         [DeleteProjects(d, IdsWhere(d.projects, "owner_id", {id}))
            EXCEPT !.profiles = Without(@, {id})]
    [] OTHER -> [d EXCEPT ![table] = Without(@, {id})]

\* A caller's insert is let through by the policies and the constraints.
SqlInsert(who, table, data) ==
  /\ nextId < MaxId
  /\ Permitted(who, table, "insert", data)
  /\ Accepts(table, data)
  /\ Inserted(table, data)
  /\ UNCHANGED <<store, session, cr, nCalls, orphans, faults, nonCreate>>

\* A caller's update of one row is let through.
SqlUpdate(who, table, id, patch) ==
  /\ id \in Ids(db[table])
  /\ Permitted(who, table, "update", Row(db[table], id))
  /\ AcceptsUpdate(table, Patched(Row(db[table], id), patch))
  /\ db' = Updated(db, table, id, patch)
  /\ UNCHANGED <<store, nextId, session, cr, nCalls, orphans, faults, nonCreate>>

\* A caller's delete of one row is let through.
SqlDelete(who, table, id) ==
  /\ id \in Ids(db[table])
  /\ Permitted(who, table, "delete", Row(db[table], id))
  /\ db' = Deleted(db, table, id)
  /\ UNCHANGED <<store, nextId, session, cr, nCalls, orphans, faults, nonCreate>>

(***************************************************************************)
(* The update operations: updateStory, updateForce, updateForceGroup,      *)
(* updateMatrixEntry, assignForceToGroup.  Each sends one UPDATE ... WHERE *)
(* id = id with the partial record it was given and, unless the response   *)
(* carries an error, merges the partial record into the store's record.    *)
(***************************************************************************)
\* The store field an update operation maps over.
Field(table) ==
  CASE table = "stories" -> "stories"
    [] table = "forces" -> "forces"
    [] table = "force_groups" -> "forceGroups"
    [] table = "story_group_matrix" -> "matrixEntries"

\* { ...record, ...data }
Merged(record, data) == data @@ record

\* records.map(r => r.id === id ? { ...r, ...data } : r)
Mapped(records, id, data) ==
  [i \in 1..Len(records) |->
     IF records[i].id = id THEN Merged(records[i], data) ELSE records[i]]

BeginUpdate(k, op, table, id, data) ==
  /\ FreeUpdate(k)
  /\ up' = [up EXCEPT ![k] = [op |-> op, table |-> table, id |-> id,
                              data |-> data, who |-> Caller, rows |-> 0,
                              pc |-> "sent"]]
  /\ UNCHANGED <<page, store, db, nextId, session, cr, nCalls, orphans, faults,
                 fp, fx, dl, auth, principal, flow>>

updateStory(k, id, data) == BeginUpdate(k, "updateStory", "stories", id, data)

updateForce(k, id, data) == BeginUpdate(k, "updateForce", "forces", id, data)

updateForceGroup(k, id, data) ==
  BeginUpdate(k, "updateForceGroup", "force_groups", id, data)

updateMatrixEntry(k, id, data) ==
  BeginUpdate(k, "updateMatrixEntry", "story_group_matrix", id, data)

assignForceToGroup(k, forceId, groupId) ==
  BeginUpdate(k, "assignForceToGroup", "forces", forceId, [group_id |-> groupId])

\* The rows an update request matches: the row with that id, if there is
\* one and the policies let the caller update it.
Matched(u) ==
  IF /\ u.id \in Ids(db[u.table])
     /\ Permitted(u.who, u.table, "update", Row(db[u.table], u.id))
    THEN {u.id}
    ELSE {}

\* The backend executes the update: the matched row is replaced if the
\* constraints allow it; when no row is matched nothing changes and the
\* response carries no error.
BackendUpdate(k) ==
  /\ up[k].pc = "sent"
  /\ Matched(up[k]) # {} =>
       AcceptsUpdate(up[k].table,
                     Patched(Row(db[up[k].table], up[k].id), up[k].data))
  /\ db' = IF Matched(up[k]) # {}
             THEN Updated(db, up[k].table, up[k].id, up[k].data)
             ELSE db
  /\ up' = [up EXCEPT ![k].pc = "updated",
                      ![k].rows = Cardinality(Matched(up[k]))]
  /\ UNCHANGED <<page, store, nextId, session, cr, nCalls, orphans, faults,
                 fp, fx, dl, auth, principal, flow>>

\* The update is refused by a constraint, or the request fails.
BackendUpdateReject(k) ==
  /\ up[k].pc = "sent"
  /\ up' = [up EXCEPT ![k].pc = "failed"]
  /\ IF /\ Matched(up[k]) # {}
        /\ ~AcceptsUpdate(up[k].table,
                          Patched(Row(db[up[k].table], up[k].id), up[k].data))
       THEN UNCHANGED faults
       ELSE Fault
  /\ UNCHANGED <<page, store, db, nextId, session, cr, nCalls, orphans,
                 fp, fx, dl, auth, principal, flow>>

\* The response arrives: if (error) throw error; otherwise the partial
\* record is merged into the store's record with that id.
UpdateResponse(k) ==
  /\ up[k].pc \in {"updated", "failed"}
  /\ IF up[k].pc = "updated"
       THEN /\ store' = [store EXCEPT ![Field(up[k].table)] =
                           Mapped(@, up[k].id, up[k].data)]
            /\ up' = [up EXCEPT ![k].pc = "done"]
       ELSE /\ up' = [up EXCEPT ![k].pc = "thrown"]
            /\ UNCHANGED store
  /\ UNCHANGED <<page, db, nextId, session, cr, nCalls, orphans, faults,
                 fp, fx, dl, auth, principal, flow>>

(***************************************************************************)
(* SpecSchema: two projects, each with an interview, a story and a force   *)
(* group; callers insert forces, force groups and matrix entries, move     *)
(* forces between stories and groups, and delete rows of any table.        *)
(***************************************************************************)
TwoProjects ==
  [profiles |-> <<[id |-> 1]>>,
   projects |-> <<[id |-> 2, name |-> 0, owner_id |-> 1, status |-> "active"],
                  [id |-> 6, name |-> 0, owner_id |-> 1, status |-> "active"]>>,
   interviews |-> <<[id |-> 3, project_id |-> 2, participant_name |-> 0,
                    participant_age |-> <<>>],
                    [id |-> 7, project_id |-> 6, participant_name |-> 0,
                    participant_age |-> <<>>]>>,
   stories |-> <<[id |-> 4, interview_id |-> 3, title |-> 0],
                 [id |-> 8, interview_id |-> 7, title |-> 0]>>,
   force_groups |-> <<[id |-> 5, project_id |-> 2, name |-> 0, type |-> "push",
                       is_leftover |-> FALSE, position |-> 0],
                      [id |-> 9, project_id |-> 6, name |-> 0, type |-> "pull",
                       is_leftover |-> FALSE, position |-> 0]>>,
   forces |-> <<>>,
   story_group_matrix |-> <<>>]

InitSchema ==
  /\ db = TwoProjects
  /\ nextId = 10
  /\ store = EmptyStore
  /\ session = 1
  /\ faults = -1
  /\ QuietCreate
  /\ QuietProjects
  /\ QuietData
  /\ QuietAuth

NextSchema ==
  \E who \in Callers :
    \/ \E s \in Ids(db.stories), t \in {"push", "pull", "other"} :
         SqlInsert(who, "forces", [story_id |-> s, type |-> t, description |-> 0])
    \/ \E s \in Ids(db.stories), g \in Ids(db.force_groups) :
         SqlInsert(who, "story_group_matrix",
                   [story_id |-> s, group_id |-> g, matches |-> <<TRUE>>])
    \/ \E f \in Ids(db.forces), g \in Ids(db.force_groups) \cup {0} :
         SqlUpdate(who, "forces", f, [group_id |-> g])
    \/ \E f \in Ids(db.forces), s \in Ids(db.stories) :
         SqlUpdate(who, "forces", f, [story_id |-> s])
    \/ \E t \in Tables : \E id \in Ids(db[t]) : SqlDelete(who, t, id)

SpecSchema == InitSchema /\ [][NextSchema]_vars

(***************************************************************************)
(* SpecMatrix: the matrix validation page of the seeded project is open    *)
(* with nothing answered yet.  The researcher answers for the active       *)
(* groups of the story on display; another signed-in researcher answers   *)
(* "no" for the same story from their own client; fetchMatrixEntries       *)
(* reloads the entries.                                                    *)
(***************************************************************************)
\* matrixEntries.find(e => e.story_id === storyId && e.group_id === groupId)
ExistingEntry(entries, storyId, groupId) ==
  {i \in 1..Len(entries) :
     entries[i].story_id = storyId /\ entries[i].group_id = groupId}

\* getActiveGroups: the groups that hold at least one force.
ActiveGroups ==
  {g \in Ids(store.forceGroups) :
     \E i \in 1..Len(store.forces) : store.forces[i].group_id = g}

\* handleResponseChange: update the entry the store holds for the pair,
\* create one when the store holds none.
handleResponseChange(c, k, storyId, groupId, response) ==
  LET found == ExistingEntry(store.matrixEntries, storyId, groupId) IN
  IF found # {}
    THEN updateMatrixEntry(k, store.matrixEntries[CHOOSE i \in found :
                                 \A j \in found : i <= j].id,
                           [matches |-> response])
    ELSE createMatrixEntry(c, storyId, groupId, response)

\* const currentStory = stories[currentStoryIndex], the index counting from 0.
CurrentStory == store.stories[page.index + 1].id

\* The page opens on a project whose group holds one force.
MatrixDb ==
  [SeedDb EXCEPT !.forces = <<[id |-> 7, story_id |-> 4, type |-> "push",
                               description |-> 0, group_id |-> 6]>>]

InitMatrix ==
  /\ db = MatrixDb
  /\ nextId = 8
  /\ store = [EmptyStore EXCEPT !.interviews = SelectInterviews(2),
                                !.stories = SelectStories(2),
                                !.forces = SelectForces(2),
                                !.forceGroups = SelectForceGroups(2)]
  /\ session = 1
  /\ faults = MaxFaults
  /\ QuietCreate
  /\ QuietProjects
  /\ QuietData
  /\ QuietAuth

NextMatrix ==
  \/ \E g \in ActiveGroups, r \in {<<TRUE>>, <<FALSE>>} :
       handleResponseChange(1, 1, CurrentStory, g, r)
  \/ \E g \in Ids(db.force_groups) :
       SqlInsert([id |-> 2, role |-> "authenticated"], "story_group_matrix",
                 [story_id |-> CurrentStory, group_id |-> g, matches |-> <<FALSE>>])
  \/ \E c \in Slots :
       \/ AuthVerified(c) \/ AuthRequired(c) \/ AuthTimeout(c)
       \/ BackendInsert(c) \/ BackendReject(c)
       \/ InsertReturned(c) \/ InsertFailed(c) \/ InsertTimeout(c)
       \/ BackoffElapsed(c)
  \/ \E o \in orphans : OrphanLands(o) \/ OrphanLost(o)
  \/ SessionEnds
  \/ \E k \in USlots :
       \/ BackendUpdate(k) \/ BackendUpdateReject(k)
       \/ UpdateResponse(k)
  \/ fetchMatrixEntries(1, 2)
  \/ \E ok \in BOOLEAN : ScopedQuery(1, ok)
  \/ ScopedResponse(1)

SpecMatrix == InitMatrix /\ [][NextMatrix]_vars

(***************************************************************************)
(* SpecInterviews: the interviews page of the seeded project is open and   *)
(* interviews are created with ages at and next to the bounds of the       *)
(* column's CHECK, or with no age.                                         *)
(***************************************************************************)
Ages == {<<>>, <<AgeLow>>, <<AgeLow + 1>>, <<AgeHigh - 1>>, <<AgeHigh>>}

InitInterviews ==
  /\ db = SeedDb
  /\ nextId = 7
  /\ store = [EmptyStore EXCEPT !.interviews = SelectInterviews(2)]
  /\ session = 1
  /\ faults = MaxFaults
  /\ QuietCreate
  /\ QuietProjects
  /\ QuietData
  /\ QuietAuth

NextInterviews ==
  \/ \E age \in Ages : createInterview(1, 2, age)
  \/ \E c \in Slots :
       \/ AuthVerified(c) \/ AuthRequired(c) \/ AuthTimeout(c)
       \/ BackendInsert(c) \/ BackendReject(c)
       \/ InsertReturned(c) \/ InsertFailed(c) \/ InsertTimeout(c)
       \/ BackoffElapsed(c)
  \/ \E o \in orphans : OrphanLands(o) \/ OrphanLost(o)
  \/ SessionEnds

SpecInterviews == InitInterviews /\ [][NextInterviews]_vars

(***************************************************************************)
(* SpecTypes: forces and force groups of every type value, listed or not,  *)
(* are inserted into the seeded project, and the types of stored forces    *)
(* and groups are updated.                                                 *)
(***************************************************************************)
\* The values tried for a type column: the listed ones, and another.
TypeValues == ForceTypes \cup {"other"}

Signed == [id |-> 1, role |-> "authenticated"]

InitTypes ==
  /\ db = SeedDb
  /\ nextId = 7
  /\ store = EmptyStore
  /\ session = 1
  /\ faults = MaxFaults
  /\ QuietCreate
  /\ QuietProjects
  /\ QuietData
  /\ QuietAuth

NextTypes ==
  \/ \E t \in TypeValues :
       SqlInsert(Signed, "forces",
                 [story_id |-> 4, type |-> t, description |-> 0])
  \/ \E t \in TypeValues :
       SqlInsert(Signed, "force_groups",
                 [project_id |-> 2, name |-> 0, type |-> t,
                  is_leftover |-> FALSE, position |-> 0])
  \/ \E id \in Ids(db.forces), t \in TypeValues :
       SqlUpdate(Signed, "forces", id, [type |-> t])
  \/ \E id \in Ids(db.force_groups), t \in TypeValues :
       SqlUpdate(Signed, "force_groups", id, [type |-> t])

SpecTypes == InitTypes /\ [][NextTypes]_vars

(***************************************************************************)
(* SpecUpdate: the pages of project 2 are open with its story, force,      *)
(* force group and matrix entry loaded.  The researcher edits them through *)
(* the update operations, with partial records that carry a text, a flag   *)
(* or a reference to a parent in the other project; another signed-in      *)
(* researcher deletes rows that the pages show.  No request is lost: an    *)
(* update fails only when the backend refuses it.                          *)
(***************************************************************************)
UpdateDb ==
  [TwoProjects EXCEPT
     !.forces = <<[id |-> 10, story_id |-> 4, type |-> "push",
                   description |-> 0, group_id |-> 0]>>,
     !.story_group_matrix = <<[id |-> 11, story_id |-> 4, group_id |-> 5,
                               matches |-> <<TRUE>>]>>]

\* The partial records passed to the update operations.
StoryPatches ==
  {[title |-> 1]}
  \cup {[interview_id |-> i] : i \in Ids(db.interviews) \ Ids(store.interviews)}

ForcePatches ==
  {[description |-> 1]}
  \cup {[story_id |-> s] : s \in Ids(db.stories) \ Ids(store.stories)}

GroupPatches == {[name |-> 1], [project_id |-> 6]}

EntryPatches ==
  {[matches |-> <<FALSE>>]}
  \cup {[story_id |-> s] : s \in Ids(db.stories) \ Ids(store.stories)}

InitUpdate ==
  /\ db = UpdateDb
  /\ nextId = 12
  /\ store = [EmptyStore EXCEPT !.interviews = SelectInterviews(2),
                                !.stories = SelectStories(2),
                                !.forces = SelectForces(2),
                                !.forceGroups = SelectForceGroups(2),
                                !.matrixEntries = SelectMatrixEntries(2)]
  /\ session = 1
  /\ faults = 0
  /\ QuietCreate
  /\ QuietProjects
  /\ QuietData
  /\ QuietAuth

NextUpdate ==
  \/ \E id \in Ids(store.stories), data \in StoryPatches :
       updateStory(1, id, data)
  \/ \E id \in Ids(store.forces), data \in ForcePatches :
       updateForce(1, id, data)
  \/ \E id \in Ids(store.forceGroups), data \in GroupPatches :
       updateForceGroup(1, id, data)
  \/ \E id \in Ids(store.matrixEntries), data \in EntryPatches :
       updateMatrixEntry(1, id, data)
  \/ \E id \in Ids(store.forces), g \in Ids(store.forceGroups) \cup {0} :
       assignForceToGroup(1, id, g)
  \/ \E k \in USlots :
       \/ BackendUpdate(k) \/ BackendUpdateReject(k)
       \/ UpdateResponse(k)
  \/ \E t \in {"stories", "forces", "force_groups", "story_group_matrix"} :
       \E id \in Ids(store[Field(t)]) :
         SqlDelete([id |-> 2, role |-> "authenticated"], t, id)

SpecUpdate == InitUpdate /\ [][NextUpdate]_vars

(***************************************************************************)
(* SpecDelete: the stories page shows the forces of story 4; the           *)
(* researcher deletes forces, and deletes again the force deleted last (or *)
(* force 0, which does not exist).  The session may end meanwhile.         *)
(***************************************************************************)
InitDelete ==
  /\ \E seed \in SeedForces :
       /\ db = [SeedDb EXCEPT !.forces = SeedForceRows(seed)]
       /\ nextId = 7 + Len(seed)
  /\ store = [EmptyStore EXCEPT !.interviews = SelectInterviews(2),
                                !.stories = SelectStories(2),
                                !.forces = SelectForces(2)]
  /\ session = 1
  /\ faults = MaxFaults
  /\ QuietCreate
  /\ QuietProjects
  /\ QuietData
  /\ QuietAuth

NextDelete ==
  \/ \E k \in DSlots :
       \/ \E id \in Ids(store.forces) \cup {dl[k].id} : deleteForce(k, id)
       \/ BackendDelete(k) \/ BackendDeleteReject(k)
       \/ DeleteResponse(k)
  \/ SessionEnds

SpecDelete == InitDelete /\ [][NextDelete]_vars

(***************************************************************************)
(* SpecGrouping: the grouping board of the seeded project, with a push and *)
(* a pull group and a push and a pull force, all loaded.  Forces are       *)
(* dropped on groups and reset.                                            *)
(***************************************************************************)
GroupingDb ==
  [SeedDb EXCEPT
     !.force_groups = <<[id |-> 6, project_id |-> 2, name |-> 0, type |-> "push",
                         is_leftover |-> FALSE, position |-> 0],
                        [id |-> 7, project_id |-> 2, name |-> 0, type |-> "pull",
                         is_leftover |-> FALSE, position |-> 0]>>,
     !.forces = <<[id |-> 8, story_id |-> 4, type |-> "push",
                   description |-> 0, group_id |-> 0],
                  [id |-> 9, story_id |-> 5, type |-> "pull",
                   description |-> 0, group_id |-> 0]>>]

\* handleDragEnd: the dragged force is assigned to the group it was dropped
\* on; a drop anywhere else (no target, or a target that is not a group)
\* changes nothing.
handleDragEnd(k, forceId, targetId) ==
  /\ targetId \in Ids(store.forceGroups)
  /\ assignForceToGroup(k, forceId, targetId)

\* handleResetForce: assignForceToGroup(forceId, null).
handleResetForce(k, forceId) == assignForceToGroup(k, forceId, 0)

InitGrouping ==
  /\ db = GroupingDb
  /\ nextId = 10
  /\ store = [EmptyStore EXCEPT !.interviews = SelectInterviews(2),
                                !.stories = SelectStories(2),
                                !.forces = SelectForces(2),
                                !.forceGroups = SelectForceGroups(2)]
  /\ session = 1
  /\ faults = MaxFaults
  /\ QuietCreate
  /\ QuietProjects
  /\ QuietData
  /\ QuietAuth

NextGrouping ==
  \/ \E f \in Ids(store.forces),
        target \in Ids(store.forceGroups) \cup Ids(store.forces) :
       handleDragEnd(1, f, target)
  \/ \E f \in Ids(store.forces) : handleResetForce(1, f)
  \/ \E k \in USlots :
       \/ BackendUpdate(k) \/ BackendUpdateReject(k)
       \/ UpdateResponse(k)

SpecGrouping == InitGrouping /\ [][NextGrouping]_vars

(***************************************************************************)
(* SpecScoped: two projects; forces, force groups and matrix entries are   *)
(* added while the pages of either project fetch their collections.        *)
(***************************************************************************)
InitScoped ==
  /\ db = TwoProjects
  /\ nextId = 10
  /\ store = EmptyStore
  /\ session = 1
  /\ faults = 0
  /\ QuietCreate
  /\ QuietProjects
  /\ QuietData
  /\ QuietAuth

NextScoped ==
  \/ \E st \in Ids(db.stories) :
       SqlInsert(Signed, "forces",
                 [story_id |-> st, type |-> "push", description |-> 0])
  \/ \E pos \in {0, 1} :
       SqlInsert(Signed, "force_groups",
                 [project_id |-> 2, name |-> 0, type |-> "push",
                  is_leftover |-> FALSE, position |-> pos])
  \/ \E st \in Ids(db.stories), g \in Ids(db.force_groups) :
       SqlInsert(Signed, "story_group_matrix",
                 [story_id |-> st, group_id |-> g, matches |-> <<TRUE>>])
  \/ fetchInterviews(1, 2)
  \/ fetchStories(1, 2)
  \/ \E p \in Ids(db.projects) :
       \/ fetchForces(1, p)
       \/ fetchForceGroups(1, p)
       \/ fetchMatrixEntries(1, p)
  \/ \E ok \in BOOLEAN : ScopedQuery(1, ok)
  \/ ScopedResponse(1)

SpecScoped == InitScoped /\ [][NextScoped]_vars

(***************************************************************************)
(* The matrix validation page: progress and the gates on it.  SpecProgress *)
(* opens the page on a project with two stories and two groups that hold   *)
(* one force each; an earlier visit left an entry for every question.  The *)
(* researcher answers and skips questions, moves between the stories and   *)
(* completes; on the grouping page forces are reset and dropped back on    *)
(* their groups.                                                           *)
(***************************************************************************)
StoryGate == 80
CompleteGate == 90

\* Math.round(n / d) for n >= 0, d > 0: halves round up.
Round(n, d) == (2 * n + d) \div (2 * d)

\* total > 0 ? Math.round((answered / total) * 100) : 0
Percentage(answered, total) ==
  IF total > 0 THEN Round(100 * answered, total) ELSE 0

\* entries.filter(entry => entry.matches !== null).length
Answered(entries) ==
  Cardinality({i \in 1..Len(entries) : entries[i].matches # <<>>})

getStoryProgress(storyIndex) ==
  IF storyIndex + 1 \notin 1..Len(store.stories)
    THEN [answered |-> 0, total |-> 0, percentage |-> 0]
    ELSE LET story == store.stories[storyIndex + 1]
             OfStory(entry) == entry.story_id = story.id
             answered == Answered(SelectSeq(store.matrixEntries, OfStory))
             total == Cardinality(ActiveGroups)
         IN [answered |-> answered, total |-> total,
             percentage |-> Percentage(answered, total)]

getOverallProgress ==
  LET totalQuestions == Len(store.stories) * Cardinality(ActiveGroups)
      answeredQuestions == Answered(store.matrixEntries)
  IN [answered |-> answeredQuestions, total |-> totalQuestions,
      percentage |-> Percentage(answeredQuestions, totalQuestions)]

\* validateCurrentStory: the errors it sets, none when the story passes.
validateCurrentStory ==
  IF getStoryProgress(page.index).percentage < StoryGate THEN 1 ELSE 0

pageOnly == <<store, db, nextId, session, cr, nCalls, orphans, faults,
              fp, fx, dl, up, auth, principal, flow>>

handlePrevious ==
  /\ page.route = "matrix"
  /\ page.index > 0
  /\ page' = [page EXCEPT !.index = page.index - 1, !.errors = 0]
  /\ UNCHANGED pageOnly

\* The Next Story button is shown on every story but the last.
handleNext ==
  /\ page.route = "matrix"
  /\ page.index # Len(store.stories) - 1
  /\ page' = IF validateCurrentStory = 0 /\ page.index < Len(store.stories) - 1
               THEN [page EXCEPT !.index = page.index + 1, !.errors = 0]
               ELSE [page EXCEPT !.errors = validateCurrentStory]
  /\ UNCHANGED pageOnly

\* The story selector lists every story of the project.
handleStorySelect(index) ==
  /\ page.route = "matrix"
  /\ index \in 0..(Len(store.stories) - 1)
  /\ page' = [page EXCEPT !.index = index, !.errors = 0]
  /\ UNCHANGED pageOnly

\* The View Results button is shown on the last story and is disabled while
\* the overall percentage is below the gate.
handleComplete ==
  /\ page.route = "matrix"
  /\ page.index = Len(store.stories) - 1
  /\ getOverallProgress.percentage >= CompleteGate
  /\ page' = IF getOverallProgress.percentage >= CompleteGate
               THEN [page EXCEPT !.route = "results"]
               ELSE [page EXCEPT !.errors = 1]
  /\ UNCHANGED pageOnly

\* The (story, group) pairs of the project, and the entries an earlier visit
\* left: one for every pair, answered yes for the given pairs and skipped
\* for the others.
Questions == <<<<4, 6>>, <<4, 7>>, <<5, 6>>, <<5, 7>>>>

EarlierAnswers(pairs) ==
  [i \in 1..Len(Questions) |->
     [id |-> 9 + i, story_id |-> Questions[i][1], group_id |-> Questions[i][2],
      matches |-> IF Questions[i] \in pairs THEN <<TRUE>> ELSE <<>>]]

ProgressDb(pairs) ==
  [GroupingDb EXCEPT
     !.forces = <<[id |-> 8, story_id |-> 4, type |-> "push",
                   description |-> 0, group_id |-> 6],
                  [id |-> 9, story_id |-> 5, type |-> "pull",
                   description |-> 0, group_id |-> 7]>>,
     !.story_group_matrix = EarlierAnswers(pairs)]

InitProgress ==
  /\ \E pairs \in {{}, {<<5, 6>>, <<5, 7>>},
                    {Questions[i] : i \in 1..Len(Questions)}} :
       db = ProgressDb(pairs)
  /\ nextId = 10 + Len(Questions)
  /\ store = [EmptyStore EXCEPT !.interviews = SelectInterviews(2),
                                !.stories = SelectStories(2),
                                !.forces = SelectForces(2),
                                !.forceGroups = SelectForceGroups(2),
                                !.matrixEntries = SelectMatrixEntries(2)]
  /\ session = 1
  /\ faults = 0
  /\ QuietCreate
  /\ QuietProjects
  /\ QuietData
  /\ QuietAuth

NextProgress ==
  \/ /\ page.route = "matrix"
     /\ \E g \in ActiveGroups, r \in {<<TRUE>>, <<>>} :
          handleResponseChange(1, 1, CurrentStory, g, r)
  \/ handlePrevious
  \/ handleNext
  \/ \E index \in 0..1 : handleStorySelect(index)
  \/ handleComplete
  \/ \E f \in Ids(store.forces) : handleResetForce(1, f)
  \/ \E f \in Ids(store.forces) : handleDragEnd(1, f, f - 2)
  \/ BackendUpdate(1) \/ UpdateResponse(1)
  \/ fetchMatrixEntries(1, 2)
  \/ ScopedQuery(1, TRUE) \/ ScopedResponse(1)

SpecProgress == InitProgress /\ [][NextProgress]_vars

(***************************************************************************)
(* The grouping page's default groups.  SpecDefaults visits the grouping   *)
(* page of a project that has no group yet: every visit issues             *)
(* fetchForceGroups and runs initializeGroups; the page is visited again   *)
(* once initializeGroups and the fetch have come to their end.  The page's *)
(* other fetches (forces, stories, interviews) replace other collections   *)
(* and are left out.                                                       *)
(***************************************************************************)
\* for (let i = 1; i <= 10; i++): the numbered default groups of a type.
Numbered == 10

\* const pushGroups = forceGroups.filter(g => g.type === type), taken from
\* the store as the page rendered it when it mounted.
NoneOf(type) ==
  \A i \in 1..Len(store.forceGroups) : store.forceGroups[i].type # type

\* The types of the groups initializeGroups creates, in order: the numbered
\* groups and the leftover group of every type it found no group of.
Planned(init) ==
  LET OfType(type) == [i \in 1..(Numbered + 1) |-> type]
  IN (IF init.push THEN OfType("push") ELSE <<>>)
     \o (IF init.pull THEN OfType("pull") ELSE <<>>)

\* useEffect on mount: fetchForceGroups(projectId) is issued and
\* initializeGroups() starts, reading forceGroups.
VisitGrouping(v, pid) ==
  /\ page.visits < MaxVisits
  /\ page.init[v].pc \in {"idle", "done", "failed"}
  /\ FreeScoped(v)
  /\ fx' = [fx EXCEPT ![v] = [IdleScoped EXCEPT !.op = "fetchForceGroups",
                                                !.projectId = pid, !.pc = "sent"]]
  /\ page' = [page EXCEPT !.visits = @ + 1,
                          !.init[v] = [pc |-> "running", push |-> NoneOf("push"),
                                       pull |-> NoneOf("pull"), made |-> 0]]
  /\ UNCHANGED <<store, db, nextId, session, cr, nCalls, orphans, faults,
                 fp, dl, up, auth, principal, flow>>

\* initializeGroups goes on: await createForceGroup(projectId, name, type)
\* for the next group of the plan once the last call has returned; a call
\* that throws ends it.
initializeGroups(v, pid) ==
  LET init == page.init[v]
      plan == Planned(init)
  IN /\ init.pc = "running"
     /\ Free(v)
     /\ IF init.made > 0 /\ cr[v].pc = "thrown"
          THEN /\ page' = [page EXCEPT !.init[v].pc = "failed"]
               /\ UNCHANGED <<store, db, nextId, session, cr, nCalls, orphans,
                              faults, fp, fx, dl, up, auth, principal, flow>>
          ELSE IF init.made = Len(plan)
            THEN /\ page' = [page EXCEPT !.init[v].pc = "done"]
                 /\ UNCHANGED <<store, db, nextId, session, cr, nCalls, orphans,
                                faults, fp, fx, dl, up, auth, principal, flow>>
            ELSE /\ page' = [page EXCEPT !.init[v].made = @ + 1]
                 /\ StartsWithin(v, ForceGroupRequest(pid, plan[init.made + 1]),
                                 2 * MaxVisits * (Numbered + 1))

\* A new project: no force group at the backend, nothing in the store.
InitDefaults ==
  /\ db = [SeedDb EXCEPT !.force_groups = <<>>]
  /\ nextId = 7
  /\ store = EmptyStore
  /\ session = 1
  /\ faults = 0
  /\ QuietCreate
  /\ QuietProjects
  /\ QuietData
  /\ QuietAuth

NextDefaults ==
  \/ VisitGrouping(1, 2)
  \/ initializeGroups(1, 2)
  \/ AuthVerified(1) \/ BackendInsert(1) \/ InsertReturned(1)
  \/ ScopedQuery(1, TRUE) \/ ScopedResponse(1)

SpecDefaults == InitDefaults /\ [][NextDefaults]_vars

(***************************************************************************)
(* The interview form.  SpecSubmit opens the form on the interviews page   *)
(* of the seeded project and submits it, also while a submission is being  *)
(* saved.                                                                  *)
(***************************************************************************)
\* The form is shown until a submission has been saved: setIsFormOpen(false)
\* follows the await of createInterview.
FormOpen == \A c \in Slots : cr[c].pc # "returned"

\* handleSubmit: if (loading) return, with the store's loading flag; then
\* await createInterview({ project_id, ... }) with the form's fields.
handleSubmit(c, pid, age) ==
  /\ FormOpen
  /\ ~store.loading
  /\ StartsWithin(c, InterviewRequest(pid, age), MaxSubmits)
  /\ UNCHANGED page

InitSubmit ==
  /\ db = SeedDb
  /\ nextId = 7
  /\ store = [EmptyStore EXCEPT !.interviews = SelectInterviews(2),
                                !.stories = SelectStories(2),
                                !.forces = SelectForces(2)]
  /\ session = 1
  /\ faults = MaxFaults
  /\ QuietCreate
  /\ QuietProjects
  /\ QuietData
  /\ QuietAuth

NextSubmit ==
  \/ \E c \in Slots :
       \/ handleSubmit(c, 2, <<AgeLow + 1>>)
       \/ AuthVerified(c) \/ AuthRequired(c) \/ AuthTimeout(c)
       \/ BackendInsert(c) \/ BackendReject(c)
       \/ InsertReturned(c) \/ InsertFailed(c) \/ InsertTimeout(c)
       \/ BackoffElapsed(c)
  \/ \E o \in orphans : OrphanLands(o) \/ OrphanLost(o)
  \/ SessionEnds

SpecSubmit == InitSubmit /\ [][NextSubmit]_vars

(***************************************************************************)
(* SpecRace: the forces page and the grouping page of the seeded project,  *)
(* their collections loaded; a force or a force group is created while     *)
(* fetchForces and fetchForceGroups run again.                             *)
(***************************************************************************)
InitRace ==
  /\ db = SeedDb
  /\ nextId = 7
  /\ store = [EmptyStore EXCEPT !.interviews = SelectInterviews(2),
                                !.stories = SelectStories(2),
                                !.forces = SelectForces(2),
                                !.forceGroups = SelectForceGroups(2)]
  /\ session = 1
  /\ faults = 0
  /\ QuietCreate
  /\ QuietProjects
  /\ QuietData
  /\ QuietAuth

NextRace ==
  \/ createForce(1, SeedDb.stories[1].id, "push")
  \/ createForceGroup(1, 2, "pull")
  \/ AuthVerified(1) \/ BackendInsert(1) \/ InsertReturned(1)
  \/ \E k \in XSlots :
       \/ fetchForces(k, 2) \/ fetchForceGroups(k, 2)
       \/ ScopedQuery(k, TRUE) \/ ScopedResponse(k)

SpecRace == InitRace /\ [][NextRace]_vars

(***************************************************************************)
(* SpecSave: the matrix validation page shows the first story and one      *)
(* active group; the pair has no entry yet, or one of an earlier visit.    *)
(* The researcher answers yes and then, sooner or later, no.               *)
(***************************************************************************)
\* The n-th answer has been given: its save has been started.
Answer(n) == cr[n].pc # "idle" \/ up[n].pc # "idle"

SaveDb(entries) == [MatrixDb EXCEPT !.story_group_matrix = entries]

InitSave ==
  /\ db \in {SaveDb(<<>>)}
          \cup {SaveDb(<<[id |-> 8, story_id |-> 5, group_id |-> 6,
                          matches |-> earlier]>>) :
                  earlier \in {<<>>, <<TRUE>>, <<FALSE>>}}
  /\ nextId = 9
  /\ store = [EmptyStore EXCEPT !.interviews = SelectInterviews(2),
                                !.stories = SelectStories(2),
                                !.forces = SelectForces(2),
                                !.forceGroups = SelectForceGroups(2),
                                !.matrixEntries = SelectMatrixEntries(2)]
  /\ session = 1
  /\ faults = MaxFaults
  /\ QuietCreate
  /\ QuietProjects
  /\ QuietData
  /\ QuietAuth

NextSave ==
  \/ \E g \in ActiveGroups :
       \/ ~Answer(1) /\ handleResponseChange(1, 1, CurrentStory, g, <<TRUE>>)
       \/ /\ Answer(1) /\ ~Answer(2)
          /\ handleResponseChange(2, 2, CurrentStory, g, <<FALSE>>)
  \/ \E c \in Slots :
       \/ AuthVerified(c) \/ AuthTimeout(c)
       \/ BackendInsert(c) \/ BackendReject(c)
       \/ InsertReturned(c) \/ InsertFailed(c) \/ InsertTimeout(c)
       \/ BackoffElapsed(c)
  \/ \E o \in orphans : OrphanLands(o) \/ OrphanLost(o)
  \/ \E k \in USlots :
       \/ BackendUpdate(k) \/ BackendUpdateReject(k)
       \/ UpdateResponse(k)

SpecSave == InitSave /\ [][NextSave]_vars

(***************************************************************************)
(* SpecReset: the dashboard with resetAllStores.  fetchProjects and        *)
(* refreshProfiles calls overlap, a project is created, and the store is   *)
(* reset at any moment.  FairReset adds that every request is answered in  *)
(* the end: a query sent to the backend comes back with rows or with an    *)
(* error.                                                                  *)
(***************************************************************************)
\* resetAllStores: every collection is emptied and both flags are lowered.
resetAllStores ==
  /\ store' = EmptyStore
  /\ UNCHANGED <<page, db, nextId, session, cr, nCalls, orphans, faults,
                 fp, fx, dl, up, auth, principal, flow>>

\* The steps in which the requests of call k are answered.
Replies(k) ==
  \/ \E ok \in BOOLEAN : ProjectsQuery(k, ok)
  \/ ProjectsResponse(k)
  \/ \E ok \in BOOLEAN : ProfilesResponse(k, ok)
  \/ \E ok \in BOOLEAN : RefreshResponse(k, ok)

InitReset ==
  /\ store = EmptyStore
  /\ db \in {SeedDb, [SeedDb EXCEPT !.projects = <<>>, !.interviews = <<>>,
                                       !.stories = <<>>, !.force_groups = <<>>]}
  /\ nextId = 7
  /\ session = 1
  /\ faults = 0
  /\ QuietCreate
  /\ QuietProjects
  /\ QuietData
  /\ QuietAuth

NextReset ==
  \/ \E k \in FSlots :
       \/ fetchProjects(k)
       \/ refreshProfiles(k)
       \/ Replies(k)
  \/ createProject(1)
  \/ ProjectAuthVerified(1) \/ AuthVerified(1) \/ BackendInsert(1)
  \/ InsertReturned(1)
  \/ \E found \in BOOLEAN : ProjectProfile(1, found)
  \/ resetAllStores

SpecReset == InitReset /\ [][NextReset]_vars

FairReset == SpecReset /\ \A k \in FSlots : WF_vars(Replies(k))

(***************************************************************************)
(* Claims about the create operations.                                     *)
(***************************************************************************)
Active(c) == cr[c].pc \notin {"idle", "returned", "thrown"}

\* The free-text field that carries the number of the call.
Tag(table, r) ==
  CASE table = "projects" -> r.name
    [] table = "interviews" -> r.participant_name
    [] table = "stories" -> r.title
    [] table = "forces" -> r.description
    [] table = "force_groups" -> r.name
    [] table = "story_group_matrix" -> 0

\* The rows at the backend that the call in slot c has created.
RowsOf(c) ==
  LET t == cr[c].table IN
  {db[t][i] : i \in {j \in 1..Len(db[t]) : Tag(t, db[t][j]) = Tag(t, cr[c].data)}}

InStore(field, row) == \E i \in 1..Len(store[field]) : store[field][i].id = row.id

\* C3: in createEntityWithRetry a terminal failure of an attempt (an error
\* response to the insert, or no authenticated user) is surfaced without any
\* further insert attempt: no call that has failed terminally is waiting for
\* the response to an insert of the retry loop.
C3_TerminalNotRetried ==
  \A c \in Slots : cr[c].terminal => cr[c].pc # "insert"

\* C4 as claimed: every create operation issues at most 3 insert requests.
C4_AtMostThreeInserts ==
  \A c \in Slots : cr[c].inserts <= retries

\* The number of insert requests a create operation may issue: the helper's
\* three, and one more for createStory, whose fallback inserts directly.
InsertBound(op) == IF op = "createStory" THEN retries + 1 ELSE retries

\* How far a call has come: every step of a call moves it up.
Rank(r) ==
  CASE r.pc = "idle" -> 0
    [] r.pc = "pre_auth" -> 1
    [] r.pc = "auth" -> 4 * r.attempt - 2
    [] r.pc = "insert" -> 4 * r.attempt - (IF r.req = "sent" THEN 1 ELSE 0)
    [] r.pc = "backoff" -> 4 * r.attempt + 1
    [] r.pc = "direct_auth" -> 4 * retries + 2
    [] r.pc = "direct_insert" -> 4 * retries + (IF r.req = "sent" THEN 3 ELSE 4)
    [] r.pc = "profile" -> 4 * retries + 5
    [] r.pc \in {"returned", "thrown"} -> 4 * retries + 6

\* C4: every create operation terminates, returning the stored record or
\* throwing, after at most 3 insert requests, and at most 4 for createStory:
\* the number of inserts stays within the bound, a returned record is a row
\* of the backend that is now in the store, and every step of a call brings
\* it nearer to its end, which it reaches after at most 4 * retries + 6 steps.
C4_BoundedInserts ==
  /\ [](\A c \in Slots :
          /\ cr[c].inserts <= InsertBound(cr[c].op)
          /\ cr[c].attempt <= retries
          /\ cr[c].pc = "returned" =>
               /\ cr[c].row \in RowsOf(c)
               /\ InStore(Collection(cr[c].op), cr[c].row))
  /\ [][\A c \in Slots :
          (cr'[c] # cr[c] /\ ~Free(c)) => Rank(cr'[c]) > Rank(cr[c])]_vars

\* A createStory call that returned the record of its fourth insert.
C4_Witness ==
  \E c \in Slots :
    /\ cr[c].op = "createStory"
    /\ cr[c].inserts = retries + 1
    /\ cr[c].pc = "returned"

\* C5: a retry after a timeout is harmless: one call to createInterview,
\* createStory or createForce leaves at most one new row at the backend, and
\* once the call has ended the store holds a record for every such row.
C5_RetryHarmless ==
  \A c \in Slots :
    cr[c].op \in {"createInterview", "createStory", "createForce"} =>
      /\ Cardinality(RowsOf(c)) <= 1
      /\ (cr[c].pc \in {"returned", "thrown"} /\ orphans = {}) =>
           \A r \in RowsOf(c) : InStore(Collection(cr[c].op), r)

(***************************************************************************)
(* Claims about the project list.                                          *)
(***************************************************************************)
InFlight(k) ==
  /\ fp[k].op = "fetchProjects"
  /\ fp[k].pc \in {"projects_sent", "projects_got", "projects_failed",
                   "profiles_sent"}

NoDuplicateIds(rows) ==
  \A i, j \in 1..Len(rows) : rows[i].id = rows[j].id => i = j

IdsInOrder(rows) == [i \in 1..Len(rows) |-> rows[i].id]

\* C1: a fetchProjects called while an earlier call is in flight issues no
\* request and changes no store field, and when the first call completes
\* store.projects is exactly that call's result: never two calls have a
\* request out, the step of a skipped call leaves store and backend alone,
\* and the completing step stores the rows that call was answered with
\* (none after an error), each project once.
C1_SecondFetchIsNoOp ==
  /\ [](Cardinality({k \in FSlots : InFlight(k)}) <= 1)
  /\ [][\A k \in FSlots :
          /\ (fp'[k] # fp[k] /\ fp'[k].pc = "skipped") =>
               (store' = store /\ db' = db)
          /\ (InFlight(k) /\ fp'[k].pc = "done") =>
               /\ IdsInOrder(store'.projects) = IdsInOrder(fp[k].rows)
               /\ NoDuplicateIds(store'.projects)
               /\ ~store'.isFetching]_vars

\* A second fetchProjects was skipped while the first is waiting for its
\* projects, which the backend has already read.
C1_Witness ==
  \E j, k \in FSlots :
    /\ fp[j].op = "fetchProjects" /\ fp[j].pc = "projects_got"
    /\ Len(fp[j].rows) > 0
    /\ fp[k].op = "fetchProjects" /\ fp[k].pc = "skipped"


(***************************************************************************)
(* The project-scoped fetches (SpecData).                                  *)
(***************************************************************************)
RequestOut(k) == fx[k].pc \in {"sent", "got", "failed"}

\* C2: a project-scoped fetch called while a call of the same operation for
\* the same project is in flight is a no-op: no two requests of one
\* operation for one project are ever outstanding together.
C2_ScopedFetchDeduplicated ==
  \A j \in XSlots, k \in XSlots :
    (/\ j # k
     /\ fx[j].op = fx[k].op
     /\ fx[j].projectId = fx[k].projectId) => ~(RequestOut(j) /\ RequestOut(k))

(***************************************************************************)
(* Completeness of a story (SpecForces).                                   *)
(***************************************************************************)
HasForce(forces, storyId, type) ==
  \E i \in 1..Len(forces) :
    forces[i].story_id = storyId /\ forces[i].type = type

\* The definition: at least one push and at least one pull force.
IsComplete(forces, storyId) ==
  HasForce(forces, storyId, "push") /\ HasForce(forces, storyId, "pull")

PushAndPullOnly(forces) ==
  LET Test(f) == f.type \in {"push", "pull"}
  IN SelectSeq(forces, Test)

\* C9: for every story and every list of forces in the store, the
\* completeness the views compute is true exactly when the story has a push
\* force and a pull force; habit and anxiety forces never change the result.
C9_CompleteIffPushAndPull ==
  /\ \A s \in Ids(store.stories) :
       /\ getStoryCompleteness(store.forces, s).isComplete
            = IsComplete(store.forces, s)
       /\ getStoryCompleteness(PushAndPullOnly(store.forces), s).isComplete
            = getStoryCompleteness(store.forces, s).isComplete
  /\ \A i \in Ids(store.interviews) :
       getInterviewStats(store.stories, store.forces, i).completeStories
         = Cardinality({s \in Ids(store.stories) :
                          /\ Row(store.stories, s).interview_id = i
                          /\ IsComplete(store.forces, s)})

\* A createForce call has returned, story 4 holds a push, a pull and a habit
\* force and is shown complete, story 5 is shown incomplete.
C9_Witness ==
  /\ cr[1].pc = "returned"
  /\ HasForce(store.forces, 4, "habit")
  /\ getStoryCompleteness(store.forces, 4).isComplete
  /\ ~getStoryCompleteness(store.forces, 5).isComplete

C6_SignOutNotUndone == flow.signedOut => auth.user = 0

\* C7: in every reachable state a store that holds a user holds a profile,
\* and the backend holds a profile row of that user.
C7_UserHasProfile ==
  auth.user # 0 => auth.profile # NoRow /\ HasProfile(auth.user)

\* The part of an email before its first '@'.
LocalPart(s) ==
  LET n == CHOOSE n \in 0..Len(s) :
             /\ \A j \in 1..n : s[j] # "@"
             /\ n = Len(s) \/ s[n + 1] = "@"
  IN SubSeq(s, 1, n)

Given(opt) == IF opt = <<>> THEN <<>> ELSE opt[1]

\* The first text of the list that is not empty, the empty text if none is.
RECURSIVE FirstGiven(_)
FirstGiven(texts) ==
  IF texts = <<>> THEN <<>>
  ELSE IF Head(texts) # <<>> THEN Head(texts) ELSE FirstGiven(Tail(texts))

Created(i) == flow.f[i].newProfile # NoRow

\* C8 as stated: a profile created by initialize or by the handler gets as
\* full_name the metadata full_name if supplied, else the metadata name if
\* supplied, else the part of the email before '@'.
C8_ThreeBranchChain ==
  \A i \in FlowIds :
    Created(i) =>
      flow.f[i].newProfile.full_name
        = FirstGiven(<<Given(principal.full_name), Given(principal.name),
                       LocalPart(Given(principal.email))>>)

\* C8, amended: a profile created by initialize or by the handler gets as
\* full_name the first non-empty text among the metadata full_name, the
\* metadata name and the part of the email before '@', and the text User
\* when all three are missing or empty; the created row is the one stored.
C8_FallbackChain ==
  \A i \in FlowIds :
    Created(i) =>
      /\ flow.f[i].newProfile.full_name
           = FirstGiven(<<Given(principal.full_name), Given(principal.name),
                          LocalPart(Given(principal.email)),
                          <<"U", "s", "e", "r">> >>)
      /\ flow.f[i].newProfile.id = principal.id
      /\ \E r \in 1..Len(db.profiles) : db.profiles[r] = flow.f[i].newProfile

\* The handler has created the profile of a principal who has an empty
\* full_name and an alternate name, and the store holds it.
C8_Witness ==
  \E k \in HSlots :
    /\ Created(k)
    /\ principal.full_name = << <<>> >>
    /\ principal.name # <<>>
    /\ flow.f[k].newProfile.full_name = principal.name[1]
    /\ auth.profile = flow.f[k].newProfile

(***************************************************************************)
(* The schema (SpecSchema).                                                *)
(***************************************************************************)
ChildTables ==
  {"interviews", "stories", "forces", "force_groups", "story_group_matrix"}

ProjectOfGroup(gid) == Row(db.force_groups, gid).project_id

\* The projects a row traces to through its foreign keys.
ProjectsOf(table, row) ==
  CASE table \in {"interviews", "force_groups"} -> {row.project_id}
    [] table = "stories" -> {Row(db.interviews, row.interview_id).project_id}
    [] table = "forces" ->
         {ProjectOfStory(row.story_id)}
           \cup (IF row.group_id = 0 THEN {} ELSE {ProjectOfGroup(row.group_id)})
    [] table = "story_group_matrix" ->
         {ProjectOfStory(row.story_id), ProjectOfGroup(row.group_id)}

\* C11: deleting a project P removes exactly the interviews, stories, forces,
\* force groups and matrix entries that trace to P, and neither removes nor
\* changes a row that belongs to another project.
C11_CascadeExact ==
  [][\A P \in Ids(db.projects) \ Ids(db'.projects) :
       \A t \in ChildTables : \A i \in 1..Len(db[t]) :
         LET r == db[t][i] IN
         /\ r.id \notin Ids(db'[t]) <=> P \in ProjectsOf(t, r)
         /\ ProjectsOf(t, r) # {P} =>
              r.id \in Ids(db'[t]) /\ Row(db'[t], r.id) = r]_vars

\* C12: every interview, story, force, force group and matrix entry traces
\* through its foreign keys to exactly one project: a force's story and
\* group, and a matrix entry's story and group, lead to the same project.
C12_OneProject ==
  \A t \in ChildTables : \A i \in 1..Len(db[t]) :
    Cardinality(ProjectsOf(t, db[t][i])) = 1

(***************************************************************************)
(* The matrix validation page (SpecMatrix).                                *)
(***************************************************************************)
OnePerPair(entries) ==
  \A i, j \in 1..Len(entries) :
    (/\ entries[i].story_id = entries[j].story_id
     /\ entries[i].group_id = entries[j].group_id) => i = j

\* A step in which handleResponseChange takes its create branch.
CreatesEntry(c) ==
  /\ Free(c)
  /\ cr'[c].pc = "auth"
  /\ cr'[c].op = "createMatrixEntry"

\* C13: the backend and store.matrixEntries each hold at most one matrix
\* entry per (story_id, group_id) pair, and a response for a pair that
\* already has an entry is applied as an update of that entry: it never
\* goes out as the creation of a second entry.
C13_OnePerPairSecondUpdates ==
  /\ [](OnePerPair(db.story_group_matrix) /\ OnePerPair(store.matrixEntries))
  /\ [][\A c \in Slots :
          CreatesEntry(c) =>
            ExistingEntry(db.story_group_matrix, cr'[c].data.story_id,
                          cr'[c].data.group_id) = {}]_vars

(***************************************************************************)
(* The interviews page (SpecInterviews).                                   *)
(***************************************************************************)
\* The interviews a create call has stored at the backend.
StoredBy(c) ==
  {i \in 1..Len(db.interviews) :
     db.interviews[i].participant_name = cr[c].arg.participant_name}

\* C14: createInterview with participant_age 0 or 120 stores no row and
\* does not return; with participant_age 1 or 119 the backend accepts the
\* row, every row the call stores carries that age, and a call that returns
\* has put the row with that age in the store.
C14_AgeBoundaries ==
  \A c \in Slots :
    (cr[c].op = "createInterview" /\ cr[c].arg.participant_age # <<>>) =>
      LET age == cr[c].arg.participant_age[1] IN
      /\ age \in {AgeLow, AgeHigh} =>
           /\ StoredBy(c) = {}
           /\ cr[c].pc # "returned"
      /\ age \in {AgeLow + 1, AgeHigh - 1} =>
           /\ Accepts("interviews", cr[c].data)
           /\ \A i \in StoredBy(c) :
                db.interviews[i].participant_age = <<age>>
           /\ cr[c].pc = "returned" =>
                \E i \in 1..Len(store.interviews) :
                  /\ store.interviews[i].participant_name =
                       cr[c].arg.participant_name
                  /\ store.interviews[i].participant_age = <<age>>

(***************************************************************************)
(* The type columns (SpecTypes).                                           *)
(***************************************************************************)
\* C15: every stored force has type push, pull, habit or anxiety and every
\* stored force group type push or pull; an insert of a force (of a force
\* group) is accepted exactly when its type is one of the listed values.
C15_TypesChecked ==
  /\ \A i \in 1..Len(db.forces) :
       db.forces[i].type \in {"push", "pull", "habit", "anxiety"}
  /\ \A i \in 1..Len(db.force_groups) :
       db.force_groups[i].type \in {"push", "pull"}
  /\ \A t \in TypeValues :
       /\ Accepts("forces", [story_id |-> 4, type |-> t, description |-> 0])
            <=> t \in {"push", "pull", "habit", "anxiety"}
       /\ Accepts("force_groups",
                  [project_id |-> 2, name |-> 0, type |-> t,
                   is_leftover |-> FALSE, position |-> 0])
            <=> t \in {"push", "pull"}

\* Forces of all four types and groups of both types are stored.
C15_Witness ==
  /\ \A t \in {"push", "pull", "habit", "anxiety"} :
       \E i \in 1..Len(db.forces) : db.forces[i].type = t
  /\ \A t \in {"push", "pull"} :
       \E i \in 1..Len(db.force_groups) : db.force_groups[i].type = t

(***************************************************************************)
(* The access policies (SpecSchema).                                       *)
(***************************************************************************)
\* C16: for every table, every command and every row, a request by an
\* authenticated principal is permitted whoever owns the row, and a request
\* by a caller who is not authenticated is rejected.
C16_UniversalAccess ==
  \A t \in Tables, cmd \in Commands, who \in Callers :
    \A i \in 1..Len(db[t]) :
      Permitted(who, t, cmd, db[t][i]) <=> who.role = "authenticated"

(***************************************************************************)
(* The update operations (SpecUpdate).                                     *)
(***************************************************************************)
\* The column of a table that refers to the row's parent.
ParentKey(table) ==
  CASE table = "stories" -> "interview_id"
    [] table = "forces" -> "story_id"
    [] table = "force_groups" -> "project_id"
    [] table = "story_group_matrix" -> "story_id"

UpdatedTables == {"stories", "forces", "force_groups", "story_group_matrix"}

\* Every record of `after` is a record of `before` with the same id and the
\* same parent.
KeepsKeys(before, after, key) ==
  \A j \in 1..Len(after) :
    \E i \in 1..Len(before) :
      /\ before[i].id = after[j].id
      /\ before[i][key] = after[j][key]

\* C17: no step of an update operation changes the id or the parent foreign
\* key (interview_id, story_id, project_id) of a record, at the backend or
\* in the store, whatever partial record was passed.
C17_KeysKept ==
  [][\A t \in UpdatedTables :
       /\ KeepsKeys(db[t], db'[t], ParentKey(t))
       /\ KeepsKeys(store[Field(t)], store'[Field(t)], ParentKey(t))]_vars

\* C18: an update that matched no row because the row had been deleted ends
\* with an error thrown and leaves the store as it was.
C18_DeletedRowThrows ==
  [][\A k \in USlots :
       (/\ up[k].pc = "updated"
        /\ up[k].rows = 0
        /\ up'[k].pc # "updated")
         => (up'[k].pc = "thrown" /\ store' = store)]_vars

(***************************************************************************)
(* deleteForce (SpecDelete).                                               *)
(***************************************************************************)
\* `after` is `before` less the force with that id, and nothing else has
\* gone or changed.
ExactlyRemoved(before, after, id) ==
  /\ Ids(after) = Ids(before) \ {id}
  /\ Len(after) = Len(before) - Cardinality(Ids(before) \cap {id})
  /\ \A j \in 1..Len(after) : \E i \in 1..Len(before) : before[i] = after[j]

\* C19: the delete a deleteForce(id) call has sent removes exactly the force
\* with that id from the backend, the answered call removes exactly that
\* force from store.forces and does not throw; when no force has that id
\* (it was deleted before, or never existed) both stay as they are.
C19_DeletesExactlyOne ==
  [][\A k \in DSlots :
       /\ (dl[k].pc = "sent" /\ dl'[k].pc = "deleted") =>
            ExactlyRemoved(db.forces, db'.forces, dl[k].id)
       /\ (dl[k].pc = "deleted" /\ dl'[k].pc # "deleted") =>
            /\ dl'[k].pc = "done"
            /\ ExactlyRemoved(store.forces, store'.forces, dl[k].id)]_vars

(***************************************************************************)
(* The grouping board (SpecGrouping).                                      *)
(***************************************************************************)
\* Every force of `forces` that has a group of `groups` has that group's
\* type.
TypesMatch(forces, groups) ==
  \A i \in 1..Len(forces), j \in 1..Len(groups) :
    forces[i].group_id = groups[j].id => forces[i].type = groups[j].type

\* C20: after any sequence of drops and resets on the grouping board every
\* force that has a group has the type of that group, at the backend and in
\* the store.
C20_GroupTypeMatches ==
  /\ TypesMatch(db.forces, db.force_groups)
  /\ TypesMatch(store.forces, store.forceGroups)

(***************************************************************************)
(* The project-scoped fetches and their results (SpecScoped).              *)
(***************************************************************************)
\* The backend table a scoped fetch reads.
TableOf(op) ==
  CASE op = "fetchInterviews"    -> "interviews"
    [] op = "fetchStories"       -> "stories"
    [] op = "fetchForces"        -> "forces"
    [] op = "fetchForceGroups"   -> "force_groups"
    [] op = "fetchMatrixEntries" -> "story_group_matrix"

\* Newest first (identifiers are handed out in the order of creation), force
\* groups by ascending position.
InOrder(op, rows) ==
  \A i, j \in 1..Len(rows) :
    i < j => IF op = "fetchForceGroups"
               THEN rows[i].position <= rows[j].position
               ELSE rows[i].id > rows[j].id

\* C21: the rows a fetch for project P gets are exactly the rows of its
\* table that trace to P, each once and none tracing to another project, in
\* the stated order; when the fetch completes they are the store collection.
C21_FetchScoped ==
  [][\A k \in XSlots :
       /\ (fx[k].pc = "sent" /\ fx'[k].pc = "got") =>
            LET t == TableOf(fx[k].op)
                P == fx[k].projectId
                rows == fx'[k].rows
            IN /\ Ids(rows) = {db[t][i].id : i \in
                                 {i \in 1..Len(db[t]) : P \in ProjectsOf(t, db[t][i])}}
               /\ Len(rows) = Cardinality(Ids(rows))
               /\ \A i \in 1..Len(rows) :
                    /\ rows[i] = Row(db[t], rows[i].id)
                    /\ ProjectsOf(t, rows[i]) = {P}
               /\ InOrder(fx[k].op, rows)
       /\ (fx[k].pc = "got" /\ fx'[k].pc # "got") =>
            store'[Target(fx[k].op)] = fx[k].rows]_vars

(***************************************************************************)
(* Claims about the matrix validation page.                                *)
(***************************************************************************)
\* The questions of a story that the page shows (one per active group) and
\* that hold an answer other than skip.
AnsweredQuestions(storyId) ==
  {g \in ActiveGroups :
     \E i \in 1..Len(store.matrixEntries) :
       /\ store.matrixEntries[i].story_id = storyId
       /\ store.matrixEntries[i].group_id = g
       /\ store.matrixEntries[i].matches # <<>>}

RECURSIVE SumAnswered(_)
SumAnswered(n) ==
  IF n = 0 THEN 0
  ELSE Cardinality(AnsweredQuestions(store.stories[n].id)) + SumAnswered(n - 1)

StoryReaches(gate) ==
  100 * Cardinality(AnsweredQuestions(CurrentStory))
    >= gate * Cardinality(ActiveGroups)

OverallReaches(gate) ==
  100 * SumAnswered(Len(store.stories))
    >= gate * Len(store.stories) * Cardinality(ActiveGroups)

Stays == page'.index = page.index /\ page'.route = page.route /\ page'.errors > 0

\* C22: handleNext moves to the next story only if at least 80 percent of
\* the current story's questions are answered, and handleComplete navigates
\* to the results only if at least 90 percent of all questions are answered;
\* otherwise the story index and the route stay as they are and a validation
\* error is set.
C22_GatedByProgress ==
  [][/\ handleNext /\ ~StoryReaches(StoryGate) => Stays
     /\ handleComplete /\ ~OverallReaches(CompleteGate) => Stays]_vars

InBounds(progress) ==
  /\ 0 <= progress.answered /\ progress.answered <= progress.total
  /\ 0 <= progress.percentage /\ progress.percentage <= 100

\* C29: the progress of every story and the overall progress satisfy
\* 0 <= answered <= total and 0 <= percentage <= 100 after any sequence of
\* answers, skips, force assignments, resets and fetches.
C29_ProgressBounds ==
  /\ \A index \in 0..(Len(store.stories) - 1) : InBounds(getStoryProgress(index))
  /\ InBounds(getOverallProgress)

(***************************************************************************)
(* Claims about what the create operations do with the insert's response.  *)
(***************************************************************************)
\* The sequence seq with its i-th element left out.
LeftOut(seq, i) ==
  [j \in 1..(Len(seq) - 1) |-> IF j < i THEN seq[j] ELSE seq[j + 1]]

\* The step adds one record to the collection of call c and nothing else to
\* the store: the record carries the row the insert returned, column by
\* column, and that row is stored at the backend.
AddsReturnedRow(c) ==
  LET coll == Collection(cr[c].op)
      row == cr[c].row
  IN /\ \E i \in 1..Len(store'[coll]) :
          /\ LeftOut(store'[coll], i) = store[coll]
          /\ \A f \in DOMAIN row : store'[coll][i][f] = row[f]
     /\ Cardinality({i \in 1..Len(store'[coll]) : store'[coll][i].id = row.id}) = 1
     /\ store' = [store EXCEPT ![coll] = store'[coll]]
     /\ \E i \in 1..Len(db[cr[c].table]) : db[cr[c].table][i] = row
     /\ cr'[c].row = row

\* C23: a create operation that succeeds adds the record the insert returned
\* to its collection exactly once, issues no fetch, and returns that record; a
\* create operation that fails leaves the store as it was and throws.
C23_UsesInsertResponse ==
  [][\A c \in Slots :
       /\ (cr[c].pc # "returned" /\ cr'[c].pc = "returned") =>
            /\ AddsReturnedRow(c)
            /\ fp' = fp /\ fx' = fx
       /\ (cr[c].pc # "thrown" /\ cr'[c].pc = "thrown") => store' = store
       /\ store' # store => \E d \in Slots : cr[d].pc # "returned"
                                               /\ cr'[d].pc = "returned"]_vars

\* A createInterview or a createMatrixEntry call has returned and its record
\* is in the store.
C23_Witness ==
  \E c \in Slots :
    /\ cr[c].pc = "returned"
    /\ cr[c].op \in {"createInterview", "createMatrixEntry"}
    /\ \E i \in 1..Len(store[Collection(cr[c].op)]) :
         store[Collection(cr[c].op)][i] = cr[c].row

(***************************************************************************)
(* Claims about the waits between the attempts.                            *)
(***************************************************************************)
\* The wait after failed attempt k: 1000 ms doubled k - 1 times, at most 5000.
RECURSIVE Doubled(_)
Doubled(k) == IF k <= 1 THEN 1000 ELSE Min(2 * Doubled(k - 1), 5000)

\* C24: every retry is preceded by a backoff wait: attempt k + 1 starts only
\* out of the wait after attempt k, which lasts min(1000 * 2^(k-1), 5000) ms,
\* whatever kind of failure ended attempt k.
C24_BackoffBeforeRetry ==
  [][\A c \in Slots :
       (cr[c].attempt >= 1 /\ cr'[c].attempt = cr[c].attempt + 1) =>
         /\ cr[c].pc = "backoff"
         /\ cr[c].wait = Doubled(cr[c].attempt)
         /\ cr[c].wait <= 5000]_vars

(***************************************************************************)
(* Claims about the default groups.                                        *)
(***************************************************************************)
GroupsOf(pid, type) ==
  {i \in 1..Len(db.force_groups) :
     db.force_groups[i].project_id = pid /\ db.force_groups[i].type = type}

\* C25: whatever the visits to the grouping page and the order in which
\* fetchForceGroups answers, the project has at most 11 default groups of
\* either type: the 10 numbered groups and the leftover group.
C25_DefaultGroupsOnce ==
  \A type \in GroupTypes : Cardinality(GroupsOf(2, type)) <= Numbered + 1

(***************************************************************************)
(* Claims about the interview form.                                        *)
(***************************************************************************)
\* C26: while a createInterview started by handleSubmit is in flight a
\* second submission issues no further create: at most one call is in
\* flight at any time.
C26_OneSubmission ==
  Cardinality({c \in Slots : ~Free(c)}) <= 1

(***************************************************************************)
(* Claims about creates that overlap with fetches.                         *)
(***************************************************************************)
\* No create call and no fetch is under way.
AllDone ==
  /\ \A c \in Slots : Free(c)
  /\ \A k \in XSlots : FreeScoped(k)

\* C27: the record a create operation has added stays in its collection
\* when a fetch of that collection, issued before the create finished,
\* completes afterwards, and once every request is done the collection holds
\* the backend's rows of the project.
C27_CreatedStays ==
  /\ \A c \in Slots :
       cr[c].pc = "returned" => InStore(Collection(cr[c].op), cr[c].row)
  /\ AllDone => /\ store.forces = SelectForces(2)
                /\ store.forceGroups = SelectForceGroups(2)

(***************************************************************************)
(* Claims about the auto-save of matrix responses (SpecSave).              *)
(***************************************************************************)
\* The response the researcher selected last.
SelectedLast == IF Answer(2) THEN <<FALSE>> ELSE <<TRUE>>

\* Every save that was started has ended, no update has failed and no
\* insert is still on its way to the backend.
SavesFinished ==
  /\ \A c \in Slots : Free(c)
  /\ \A k \in USlots : up[k].pc \in {"idle", "done"}
  /\ orphans = {}

\* The entries hold the pair of story and group, with that answer only.
Holds(entries, storyId, groupId, response) ==
  /\ ExistingEntry(entries, storyId, groupId) # {}
  /\ \A i \in ExistingEntry(entries, storyId, groupId) :
       entries[i].matches = response

\* C28: once the saves started for a (story, group) pair have finished, the
\* backend and store.matrixEntries hold the response selected last for the
\* pair, also when the second response was selected before the first save
\* returned and when an insert timed out on the client but landed.
C28_SavesConverge ==
  (Answer(1) /\ SavesFinished) =>
    \A g \in ActiveGroups :
      /\ Holds(db.story_group_matrix, CurrentStory, g, SelectedLast)
      /\ Holds(store.matrixEntries, CurrentStory, g, SelectedLast)

(***************************************************************************)
(* Claims about the flags of fetchProjects (FairReset).                    *)
(***************************************************************************)
\* Call k is a fetchProjects call that has raised the flags and not ended.
Fetching(k) ==
  /\ fp[k].op = "fetchProjects"
  /\ fp[k].pc \in {"projects_sent", "projects_got", "projects_failed",
                   "profiles_sent"}

\* C30: isFetching is true exactly when a fetchProjects call is in flight,
\* and every fetchProjects call that starts sets isFetching and loading back
\* to false in the end, whatever its query returns and however it
\* interleaves with refreshProfiles, createProject and resetAllStores.
C30_FlagFollowsFetch ==
  /\ [](store.isFetching <=> \E k \in FSlots : Fetching(k))
  /\ \A k \in FSlots :
       Fetching(k) ~> (~store.isFetching /\ ~store.loading)
====
